---- MODULE Spec2Model ----
(***************************************************************************)
(* Abstracted poker (open_spiel/games/abstracted_poker): the canonical     *)
(* hand indexer (universal_poker/handIndex/index.cpp) and the betting      *)
(* state machine UniversalPokerState / UniversalPokerGame, with the search *)
(* driver AbstractedPokerSearchState on top of it.                         *)
(***************************************************************************)
EXTENDS Integers, Sequences, FiniteSets, TLC

VARIABLES
    ix,             \* the hand-indexer harness: inputs and the results of index / canonicalHand
    game,           \* the parameters of the UniversalPokerGame
    game_off_abs,   \* UniversalPokerGame::off_abs_information_state_action_
    state,          \* the UniversalPokerState
    fatal,          \* the message of the fatal error that ended the process, "" if none
    last            \* the last call made and what it returned

(***************************************************************************)
(* Bounds of the model.                                                    *)
(***************************************************************************)
\* the ranks of the deck the indexer's inputs are drawn from: the first ranks of
\* "23456789TJQKA" (the library has all 13)
InputRanks == <<"2", "3">>
MaxRanks == Len(InputRanks)
\* rounds of the largest generalIndexer whose hands and indices are all enumerated
MaxRound == 2
\* rounds of the largest generalIndexer that is built (the code builds 1..4)
IndexerRounds == MaxRound + 1

Min(S) == CHOOSE x \in S : \A y \in S : x <= y

(***************************************************************************)
(* handIndex/index.cpp                                                     *)
(***************************************************************************)
kSuitChars_index == <<"s", "h", "d", "c">>
kRankChars_index == <<"2", "3", "4", "5", "6", "7", "8", "9", "T", "J", "Q", "K", "A">>

\* const uint8_t cards_per_round[4] = {2, 3, 1, 1}
cards_per_round == <<2, 3, 1, 1>>

\* cards_num[i] = cards_num[i - 1] + cards_per_round[i]  (1-based round r here)
RECURSIVE cards_num(_)
cards_num(r) == IF r = 0 THEN 0 ELSE cards_num(r - 1) + cards_per_round[r]

\* std::string::find: 0-based position of the first occurrence, npos (-1 here) if none
find(str, chr) ==
    IF \E i \in 1..Len(str) : str[i] = chr
    THEN Min({i \in 1..Len(str) : str[i] = chr}) - 1
    ELSE -1

\* (card_t) x : conversion to uint8_t; npos becomes 255
card_t(x) == x % 256

\* bitwise or of two naturals
RECURSIVE BitOr(_, _)
BitOr(a, b) ==
    IF a = 0 THEN b
    ELSE IF b = 0 THEN a
    ELSE (IF a % 2 = 1 \/ b % 2 = 1 THEN 1 ELSE 0) + 2 * BitOr(a \div 2, b \div 2)

\* deck.h: deck_make_card(suit, rank) = rank << 2 | suit, returned as a uint8_t
deck_make_card(suit, rank) == BitOr(rank * 4, suit) % 256
deck_get_suit(card) == card % 4
deck_get_rank(card) == card \div 4

\* std::string::operator[]: the character at 0-based position i, '\0' at size()
CharAt(str, i) == IF i + 1 <= Len(str) THEN str[i + 1] ELSE "\\0"

\* the decoding loop with the arguments of deck_make_card exchanged
DecodeCardsSwapped(cardString) ==
    [k \in 1..((Len(cardString) + 1) \div 2) |->
        LET rankChr == CharAt(cardString, 2 * (k - 1))
            suitChr == CharAt(cardString, 2 * (k - 1) + 1)
            rank == card_t(find(kRankChars_index, rankChr))
            suit == card_t(find(kSuitChars_index, suitChr))
        IN  deck_make_card(rank, suit)]

\* the decoding loop reading the rank character only: every card gets suit 0
DecodeCardsRankOnly(cardString) ==
    [k \in 1..((Len(cardString) + 1) \div 2) |->
        LET rankChr == CharAt(cardString, 2 * (k - 1))
            rank == card_t(find(kRankChars_index, rankChr))
        IN  deck_make_card(0, rank)]

\* the decoding loop of generalIndexer::index: for (i = 0; i < size; i += 2)
DecodeCards(cardString) ==
    [k \in 1..((Len(cardString) + 1) \div 2) |->
        LET rankChr == CharAt(cardString, 2 * (k - 1))
            suitChr == CharAt(cardString, 2 * (k - 1) + 1)
            rank == card_t(find(kRankChars_index, rankChr))
            suit == card_t(find(kSuitChars_index, suitChr))
        IN  deck_make_card(suit, rank)]

\* the encoding loop writing the cards last to first
RECURSIVE EncodeCardsReversed(_, _)
EncodeCardsReversed(cards, n) ==
    IF n = 0 THEN <<>>
    ELSE << kRankChars_index[deck_get_rank(cards[n]) + 1],
            kSuitChars_index[deck_get_suit(cards[n]) + 1] >> \o
         EncodeCardsReversed(cards, n - 1)

\* the encoding loop of generalIndexer::canonicalHand
RECURSIVE EncodeCards(_, _)
EncodeCards(cards, n) ==
    IF n = 0 THEN <<>>
    ELSE EncodeCards(cards, n - 1) \o
         << kRankChars_index[deck_get_rank(cards[n]) + 1],
            kSuitChars_index[deck_get_suit(cards[n]) + 1] >>

(***************************************************************************)
(* hand-isomorphism (hand_index.h): the canonical index of a hand is the   *)
(* rank of its suit-isomorphism class among the classes of its round.      *)
(***************************************************************************)
Suits == 0..3
Deck52 == {deck_make_card(s, r) : s \in Suits, r \in 0..(MaxRanks - 1)}
KeyBase == 4 * MaxRanks

SuitPerms == {p \in [Suits -> Suits] : \A a, b \in Suits : p[a] = p[b] => a = b}

PermCard(p, c) == deck_make_card(p[deck_get_suit(c)], deck_get_rank(c))
PermCards(p, cards) == [k \in 1..Len(cards) |-> PermCard(p, cards[k])]

\* the cards of round r (1-based) of a hand, as a set: order inside a round is irrelevant
RoundCards(cards, r) ==
    {cards[k] : k \in {j \in (cards_num(r - 1) + 1)..cards_num(r) : j <= Len(cards)}}

RECURSIVE KeyOfSet(_, _)
KeyOfSet(S, acc) ==
    IF S = {} THEN acc
    ELSE LET m == Min(S) IN KeyOfSet(S \ {m}, acc * KeyBase + (m % KeyBase))

RECURSIVE HandKey(_, _)
HandKey(round, cards) ==
    IF round = 0 THEN 0
    ELSE KeyOfSet(RoundCards(cards, round), HandKey(round - 1, cards))

CanonKey(round, cards) ==
    Min({HandKey(round, PermCards(p, cards)) : p \in SuitPerms})

RECURSIVE SortedSeq(_)
SortedSeq(S) == IF S = {} THEN <<>> ELSE LET m == Min(S) IN <<m>> \o SortedSeq(S \ {m})

Range(f) == {f[k] : k \in DOMAIN f}

KSubsets(S, k) == {T \in SUBSET S : Cardinality(T) = k}

\* every hand of a round: distinct cards, each round's cards in ascending order
RECURSIVE HandsUpTo(_)
HandsUpTo(round) ==
    IF round = 0 THEN {<<>>}
    ELSE UNION {{h \o SortedSeq(S) : S \in KSubsets(Deck52 \ Range(h), cards_per_round[round])} :
                  h \in HandsUpTo(round - 1)}

Hands == [r \in 1..IndexerRounds |-> HandsUpTo(r)]

\* a hand with the cards of each round in ascending order
RECURSIVE NormHand(_, _)
NormHand(round, cards) ==
    IF round = 0 THEN <<>>
    ELSE NormHand(round - 1, cards) \o SortedSeq(RoundCards(cards, round))

CanonKeyOf == [r \in 1..IndexerRounds |-> [h \in Hands[r] |-> CanonKey(r, h)]]

CanonKeys == [r \in 1..IndexerRounds |-> {CanonKeyOf[r][h] : h \in Hands[r]}]

RankOfKey == [r \in 1..IndexerRounds |->
                [k \in CanonKeys[r] |-> Cardinality({j \in CanonKeys[r] : j < k})]]

KeyOfRank == [r \in 1..IndexerRounds |->
                [i \in 0..(Cardinality(CanonKeys[r]) - 1) |->
                    CHOOSE k \in CanonKeys[r] : RankOfKey[r][k] = i]]

\* hand_indexer_size(indexer, round)
hand_indexer_size(round) == Cardinality(CanonKeys[round])

\* hand_index_last(indexer, cards) of an indexer of `round` rounds: the number of
\* classes before the class of the hand
hand_index_last(round, cards) ==
    LET n == NormHand(round, cards)
    IN  IF n \in Hands[round]
        THEN RankOfKey[round][CanonKeyOf[round][n]]
        ELSE LET key == CanonKey(round, cards)
             IN  Cardinality({k \in CanonKeys[round] : k < key})

RECURSIVE KeyDigits(_, _)
KeyDigits(key, n) ==
    IF n = 0 THEN <<>> ELSE KeyDigits(key \div KeyBase, n - 1) \o <<key % KeyBase>>

\* hand_unindex(indexer, round, index, cards): the representative of class `index`
hand_unindex(round, index) == KeyDigits(KeyOfRank[round][index], cards_num(round))

(***************************************************************************)
(* generalIndexer                                                          *)
(***************************************************************************)
\* generalIndexer::getSize(r) of an indexer of at least r rounds
getSize(r) == hand_indexer_size(r)
getCardsNum(r) == cards_num(r)

\* generalIndexer::index of an indexer configured with `round` rounds
index(round, cardString) == hand_index_last(round, DecodeCards(cardString))

\* generalIndexer::canonicalHand of an indexer configured with `round` rounds
canonicalHand(round, cardId) ==
    EncodeCards(hand_unindex(round, cardId), cards_num(round))

\* the cards hand_index_last reads from the uint8_t cards[7] array of index():
\* those decoded from the string and, past them, what the array held before
\* (`junk`), up to the cards of the indexer's rounds
CardsRead(rounds, cardString, junk) ==
    LET cards == DecodeCards(cardString)
        missing == cards_num(rounds) - Len(cards)
    IN  IF missing <= 0 THEN SubSeq(cards, 1, cards_num(rounds))
        ELSE cards \o SubSeq(junk, 1, missing)

\* generalIndexer::index called on an indexer configured with `rounds` rounds: the
\* value returned, or the assertion that aborts
generalIndexer_index(rounds, cardString, junk) ==
    IF ~(Len(cardString) <= 2 * 7)
    THEN [ret |-> -1, err |-> "assert(cardString.size() <= 2 * 7)"]
    ELSE [ret |-> hand_index_last(rounds, CardsRead(rounds, cardString, junk)), err |-> ""]

\* the constructor without the assertion on hand_indexer_init: the result of the
\* library call is dropped
generalIndexer_ctorUnchecked(r, initOk) ==
    IF ~(r >= 1 /\ r <= 4)
    THEN [round |-> 0, err |-> "assert(r >= 1 && r <= 4)"]
    ELSE [round |-> r, err |-> ""]

\* generalIndexer::generalIndexer(r): the round count of the indexer constructed,
\* or the assertion that aborts; initOk is what hand_indexer_init returns
generalIndexer_ctor(r, initOk) ==
    IF ~(r >= 1 /\ r <= 4)
    THEN [round |-> 0, err |-> "assert(r >= 1 && r <= 4)"]
    ELSE IF ~initOk
    THEN [round |-> 0, err |-> "assert(hand_indexer_init(round, cards_per_round, &general_indexer))"]
    ELSE [round |-> r, err |-> ""]

\* generalIndexer::getSize(r) on an indexer configured with `rounds` rounds
generalIndexer_getSize(rounds, r) ==
    IF ~(r >= 1 /\ r <= rounds)
    THEN [ret |-> -1, err |-> "assert(r >= 1 && r <= round)"]
    ELSE [ret |-> hand_indexer_size(r), err |-> ""]

\* generalIndexer::getCardsNum(r) on an indexer configured with `rounds` rounds
generalIndexer_getCardsNum(rounds, r) ==
    IF ~(r >= 1 /\ r <= rounds)
    THEN [ret |-> -1, err |-> "assert(r >= 1 && r <= round)"]
    ELSE [ret |-> cards_num(r), err |-> ""]

\* preflopIndexer::index: the value returned, or the assertion that aborts
preflopIndexer_index(cardString, junk) ==
    IF ~(Len(cardString) <= 2)
    THEN [ret |-> -1, err |-> "assert(cardString.size() <= 2)"]
    ELSE [ret |-> hand_index_last(1, CardsRead(1, cardString, junk)), err |-> ""]

\* preflopIndexer::canonicalHand: the string returned, or the assertion that aborts
preflopIndexer_canonicalHand(cardId) ==
    IF ~(cardId < hand_indexer_size(1))
    THEN [ret |-> <<>>, err |-> "assert(cardId < size)"]
    ELSE [ret |-> EncodeCards(hand_unindex(1, cardId), 2), err |-> ""]

\* generalIndexer::canonicalHand with the printing loop of the single-round
\* indexer (for i < 2)
generalIndexer_canonicalHandOfTwoCards(rounds, cardId) ==
    IF ~(cardId < hand_indexer_size(rounds))
    THEN [ret |-> <<>>, err |-> "assert(cardId < size[round - 1])"]
    ELSE [ret |-> EncodeCards(hand_unindex(rounds, cardId), 2), err |-> ""]

\* generalIndexer::canonicalHand called on an indexer configured with `rounds`
\* rounds: the string returned, or the assertion that aborts
generalIndexer_canonicalHand(rounds, cardId) ==
    IF ~(cardId < hand_indexer_size(rounds))
    THEN [ret |-> <<>>, err |-> "assert(cardId < size[round - 1])"]
    ELSE [ret |-> canonicalHand(rounds, cardId), err |-> ""]

(***************************************************************************)
(* Game parameters (kGameType parameter list and parseParameters): the     *)
(* default two-player, two-round game with the chip amounts divided by     *)
(* 100, a three-card deck, and the betting type, the betting abstraction   *)
(* and the stacks varied.                                                  *)
(***************************************************************************)
\* the largest stack of a no-limit game
MaxStack == 6

\* stack of a limit game when none is given: INT32_MAX
INT32_MAX == 2147483647

Max(S) == CHOOSE x \in S : \A y \in S : x >= y

\* the defaults with numRounds rounds (2 by default), one card dealt to the board
\* in each round after the first, and a deck of one suit with just enough ranks
GameDef(betting, abstraction, stack, numRounds) ==
    [numPlayers |-> 2, betting |-> betting,
     stack |-> IF betting = "limit" THEN <<INT32_MAX, INT32_MAX>> ELSE stack,
     blind |-> <<1, 1>>,
     raiseSize |-> [r \in 1..numRounds |-> 1],
     numRounds |-> numRounds,
     firstPlayer |-> [r \in 1..numRounds |-> 1],
     maxRaises |-> [r \in 1..numRounds |-> IF betting = "limit" THEN 2 ELSE 255],
     numSuits |-> 1, numRanks |-> numRounds + 1, numHoleCards |-> 1,
     numBoardCards |-> [r \in 1..numRounds |-> IF r = 1 THEN 0 ELSE 1],
     bettingAbstraction |-> abstraction]

\* the one-round no-limit game the custom raises are registered in
OffAbsGame == GameDef("nolimit", "fcpa", <<MaxStack, MaxStack>>, 1)

\* a one-round game with a deck of two cards of one rank: every showdown is a tie
TieGame ==
    [GameDef("nolimit", "fcpa", <<MaxStack, MaxStack - 2>>, 1)
        EXCEPT !.numSuits = 2, !.numRanks = 1]

\* a one-round game of three players with blinds 1, 2, 0 and three stacks
ThreePlayerGame ==
    [GameDef("nolimit", "fcpa", <<MaxStack, MaxStack - 2, MaxStack - 1>>, 1)
        EXCEPT !.numPlayers = 3, !.blind = <<1, 2, 0>>, !.firstPlayer = <<3>>,
               !.numRanks = 3]

\* a fold/call-only limit game of three rounds with two hole cards, a flop of three
\* cards and a turn card, played with a deck of eight cards
HoldemGame ==
    [GameDef("limit", "fc", <<>>, 3)
        EXCEPT !.numSuits = 4, !.numRanks = 2, !.numHoleCards = 2,
               !.numBoardCards = <<0, 3, 1>>]

GameParams ==
    {TieGame, ThreePlayerGame,
     GameDef("nolimit", "fcpa", <<MaxStack, MaxStack>>, 2),
     GameDef("nolimit", "fcpa", <<MaxStack, MaxStack - 2>>, 2),
     GameDef("nolimit", "fc", <<MaxStack, MaxStack>>, 2),
     GameDef("limit", "fcpa", <<>>, 2),
     GameDef("limit", "fc", <<>>, 2),
     OffAbsGame}

Players(g) == 0..(g.numPlayers - 1)

\* the sum of f[p + 1] over the players p of P
RECURSIVE SumOver(_, _)
SumOver(P, f) ==
    IF P = {} THEN 0
    ELSE LET p == Min(P) IN f[p + 1] + SumOver(P \ {p}, f)

(***************************************************************************)
(* The protocol engine (acpc_cpp::ACPCGame / ACPCState over                *)
(* project_acpc_server/game.c). Players are numbered from 0; the sequences *)
(* spent, playerFolded, stack are indexed by player + 1.                   *)
(***************************************************************************)
MAX_NUM_ACTIONS == 64

IsLimitGame(g) == g.betting = "limit"

\* GetNbBoardCardsRequired(round): the board cards of the rounds up to `round`
RECURSIVE GetNbBoardCardsRequired(_, _)
GetNbBoardCardsRequired(g, round) ==
    IF round < 0 THEN 0
    ELSE GetNbBoardCardsRequired(g, round - 1) + g.numBoardCards[round + 1]

\* initState
initState(g) ==
    LET maxSpent == Max({g.blind[p + 1] : p \in Players(g)} \cup {0})
    IN  [round |-> 0, finished |-> FALSE, maxSpent |-> maxSpent,
         minNoLimitRaiseTo |->
             IF g.betting = "nolimit" THEN (IF maxSpent > 0 THEN maxSpent * 2 ELSE 1) ELSE 0,
         spent |-> [p \in 1..g.numPlayers |-> g.blind[p]],
         playerFolded |-> [p \in 1..g.numPlayers |-> FALSE],
         action |-> [r \in 1..g.numRounds |-> <<>>]]

numFolded(g, a) == Cardinality({p \in Players(g) : a.playerFolded[p + 1]})

numActingPlayers(g, a) ==
    Cardinality({p \in Players(g) : ~a.playerFolded[p + 1] /\ a.spent[p + 1] < g.stack[p + 1]})

numRaises(a) ==
    Cardinality({i \in 1..Len(a.action[a.round + 1]) : a.action[a.round + 1][i].type = "r"})

\* numCalled: the acting players that have called the current bet, scanning the
\* round's actions from the last one back to the raise that started the bet
RECURSIVE numCalledFrom(_, _, _)
numCalledFrom(g, a, i) ==
    IF i = 0 THEN 0
    ELSE LET act == a.action[a.round + 1][i]
             acting == IF a.spent[act.player + 1] < g.stack[act.player + 1] THEN 1 ELSE 0
         IN  IF act.type = "r" THEN acting
             ELSE IF act.type = "c" THEN acting + numCalledFrom(g, a, i - 1)
             ELSE numCalledFrom(g, a, i - 1)

numCalled(g, a) == numCalledFrom(g, a, Len(a.action[a.round + 1]))

\* nextPlayer: the first player after curPlayer who has not folded and is not
\* all-in (the C loop does not end when there is none: -1 here)
nextPlayer(g, a, curPlayer) ==
    LET able(n) == ~a.playerFolded[n + 1] /\ a.spent[n + 1] < g.stack[n + 1]
        steps == {k \in 1..g.numPlayers : able((curPlayer + k) % g.numPlayers)}
    IN  IF steps = {} THEN -1 ELSE (curPlayer + Min(steps)) % g.numPlayers

\* currentPlayer
currentPlayer(g, a) ==
    LET acts == a.action[a.round + 1]
    IN  IF Len(acts) > 0 THEN nextPlayer(g, a, acts[Len(acts)].player)
        ELSE nextPlayer(g, a, (g.firstPlayer[a.round + 1] - 1) + g.numPlayers - 1)

\* raiseIsValid(game, state, &minSize, &maxSize): `set` tells whether the two
\* outputs were written
raiseIsValid(g, a) ==
    LET p == currentPlayer(g, a)
        unset == [valid |-> FALSE, set |-> FALSE, min |-> 0, max |-> 0]
    IN  IF numRaises(a) >= g.maxRaises[a.round + 1] THEN unset
        ELSE IF Len(a.action[a.round + 1]) + g.numPlayers > MAX_NUM_ACTIONS THEN unset
        ELSE IF numActingPlayers(g, a) <= 1 THEN unset
        ELSE IF g.betting # "nolimit" THEN [valid |-> TRUE, set |-> TRUE, min |-> 0, max |-> 0]
        ELSE IF a.minNoLimitRaiseTo > g.stack[p + 1]
             THEN IF a.maxSpent >= g.stack[p + 1]
                  THEN [valid |-> FALSE, set |-> TRUE,
                        min |-> a.minNoLimitRaiseTo, max |-> g.stack[p + 1]]
                  ELSE [valid |-> TRUE, set |-> TRUE,
                        min |-> g.stack[p + 1], max |-> g.stack[p + 1]]
        ELSE [valid |-> TRUE, set |-> TRUE, min |-> a.minNoLimitRaiseTo, max |-> g.stack[p + 1]]

\* isValidAction(game, state, tryFixing = 0, action)
isValidAction(g, a, type, size) ==
    LET p == currentPlayer(g, a)
        rv == raiseIsValid(g, a)
    IN  IF a.finished THEN FALSE
        ELSE IF type = "r"
             THEN rv.valid /\ (g.betting = "nolimit" => (size >= rv.min /\ size <= rv.max))
        ELSE IF type = "f"
             THEN ~(a.spent[p + 1] = a.maxSpent \/ a.spent[p + 1] = g.stack[p + 1])
        ELSE TRUE

\* doAction(game, action, state)
doAction(g, a, type, size) ==
    LET p == currentPlayer(g, a)
        r == a.round + 1
        a1 == [a EXCEPT !.action[r] = Append(@, [type |-> type, size |-> size, player |-> p])]
        a2 == IF type = "f" THEN [a1 EXCEPT !.playerFolded[p + 1] = TRUE]
              ELSE IF type = "c"
                   THEN IF a1.maxSpent > g.stack[p + 1]
                        THEN [a1 EXCEPT !.spent[p + 1] = g.stack[p + 1]]
                        ELSE [a1 EXCEPT !.spent[p + 1] = a1.maxSpent]
              ELSE IF g.betting = "nolimit"
                   THEN [a1 EXCEPT !.minNoLimitRaiseTo =
                                      IF size + size - a1.maxSpent > @
                                      THEN size + size - a1.maxSpent ELSE @,
                                   !.maxSpent = size,
                                   !.spent[p + 1] = size]
              ELSE LET m == IF a1.maxSpent + g.raiseSize[r] > g.stack[p + 1]
                            THEN g.stack[p + 1] ELSE a1.maxSpent + g.raiseSize[r]
                   IN  [a1 EXCEPT !.maxSpent = m, !.spent[p + 1] = m]
    IN  IF numFolded(g, a2) + 1 >= g.numPlayers THEN [a2 EXCEPT !.finished = TRUE]
        ELSE IF numCalled(g, a2) >= numActingPlayers(g, a2)
             THEN IF numActingPlayers(g, a2) > 1
                  THEN IF a2.round + 1 < g.numRounds
                       THEN [a2 EXCEPT !.round = @ + 1,
                                       !.minNoLimitRaiseTo =
                                           Max({1} \cup {g.blind[q + 1] : q \in Players(g)})
                                           + a2.maxSpent]
                       ELSE [a2 EXCEPT !.finished = TRUE]
                  ELSE [a2 EXCEPT !.finished = TRUE, !.round = g.numRounds - 1]
        ELSE a2

\* ACPCState::BettingSequence(round): the printed actions of a round, "f", "c",
\* "r<size>" (no-limit) or "r" (limit), one tuple per action
BettingSequence(g, a, round) ==
    [i \in 1..Len(a.action[round + 1]) |->
        LET act == a.action[round + 1][i]
        IN  IF act.type = "r" /\ g.betting = "nolimit" THEN <<"r", act.size>> ELSE <<act.type>>]

\* ACPCState::Money(player)
Money(g, a, player) == g.stack[player + 1] - a.spent[player + 1]

(***************************************************************************)
(* logic::CardSet: a set of cards; card = rank * MAX_SUITS + suit          *)
(***************************************************************************)
MAX_SUITS == 4

\* CardSet(num_suits, num_ranks): the full deck
CardSet(num_suits, num_ranks) ==
    {r * MAX_SUITS + su : r \in 0..(num_ranks - 1), su \in 0..(num_suits - 1)}

AddCard(cs, card) == cs \cup {card}
\* a removal that leaves the card in the set
RemoveCardKept(cs, card) == cs
RemoveCard(cs, card) == cs \ {card}
NumCards(cs) == Cardinality(cs)
ToCardArray(cs) == cs

\* CardSet::ToString: rank and suit character of every card, highest card first
kSuitChars == <<"c", "d", "h", "s">>
RECURSIVE CardSetToString(_)
CardSetToString(cs) ==
    IF cs = {} THEN <<>>
    ELSE LET c == Max(cs)
         IN  <<kRankChars_index[(c \div MAX_SUITS) + 1], kSuitChars[(c % MAX_SUITS) + 1]>>
             \o CardSetToString(cs \ {c})

(***************************************************************************)
(* The value of a finished hand (ACPCState::ValueOfState over valueOfState *)
(* and rankHand of game.c). A value is a double in the code; here it is    *)
(* counted in parts of a chip, ChipParts(g) parts to the chip, so that a  *)
(* pot split among the winners stays a whole number.                       *)
(***************************************************************************)
RECURSIVE Lcm1To(_)
Lcm1To(n) ==
    IF n <= 1 THEN 1
    ELSE LET m == Lcm1To(n - 1)
         IN  m * Min({k \in 1..n : (m * k) % n = 0})

\* the least number of parts that every split among 1..numPlayers winners divides
ChipParts(g) == Lcm1To(g.numPlayers)

\* rankHand for the hands of these decks, which hold one to three cards: three of
\* a kind beats a pair, a pair beats no pair, then the higher ranks decide; suits
\* do not count
RECURSIVE RanksValue(_, _)
RanksValue(cs, acc) ==
    IF cs = {} THEN acc
    ELSE LET c == Max(cs) IN RanksValue(cs \ {c}, acc * 13 + (c \div MAX_SUITS))

rankHand(g, s, p) ==
    LET cs == s.hole_cards_[p + 1] \cup s.board_cards_
        ranks == {c \div MAX_SUITS : c \in cs}
        count(r) == Cardinality({c \in cs : c \div MAX_SUITS = r})
        most == Max({count(r) : r \in ranks} \cup {0})
        paired == {r \in ranks : count(r) = most}
    IN  1 + (most * 13 + Max(paired \cup {0})) * 13 * 13 * 13 + RanksValue(cs, 0)

\* the side pots the player takes part in, smallest first: rem is what each player
\* still has in the pots left, rank is -1 for a player who folded
RECURSIVE SidePots(_, _, _, _, _)
SidePots(g, rem, rank, player, value) ==
    LET live == {p \in Players(g) : rem[p + 1] > 0}
        size == Min({rem[p + 1] : p \in live})
        winRank == Max({rank[p + 1] : p \in live} \cup {0})
        numWinners == Cardinality({p \in live : rank[p + 1] = winRank})
        value2 == IF rank[player + 1] = winRank
                  THEN value + (ChipParts(g) * size * (Cardinality(live) - numWinners))
                                   \div numWinners
                  ELSE value - ChipParts(g) * size
        rem2 == [q \in 1..g.numPlayers |-> IF rem[q] > 0 THEN rem[q] - size ELSE 0]
    IN  IF rem2[player + 1] = 0 THEN value2
        ELSE SidePots(g, rem2, rank, player, value2)

\* valueOfState(game, state, player) with the cards of the state
ValueOfState(g, s, player) ==
    LET a == s.acpc_state_
    IN  IF a.playerFolded[player + 1] THEN -(ChipParts(g) * a.spent[player + 1])
        ELSE IF numFolded(g, a) + 1 = g.numPlayers
        THEN ChipParts(g) * SumOver(Players(g) \ {player}, a.spent)
        ELSE SidePots(g, a.spent,
                      [q \in 1..g.numPlayers |->
                          IF a.playerFolded[q] THEN -1 ELSE rankHand(g, s, q - 1)],
                      player, 0)

(***************************************************************************)
(* UniversalPokerGame: the indexers, the cluster lookup and the game-scope *)
(* table of custom raises                                                  *)
(***************************************************************************)
\* UniversalPokerState::GetIndex(round, hand): the indexer built for `round` rounds
GetIndex(round, hand) == index(round, hand)

\* a uint64_t is kept as its 16 low bits `lo` and the bits above them `hi`;
\* uint64_t(n) is the conversion of a non-negative int
uint64_t(n) == [hi |-> n \div 65536, lo |-> n % 65536]

\* (int)v of a uint64_t: the low 32 bits, in two's complement
int(v) ==
    LET h == v.hi % 65536
    IN  (IF h >= 32768 THEN h - 65536 ELSE h) * 65536 + v.lo

\* a % b of two ints, b > 0: the remainder has the sign of a
Rem(a, b) ==
    LET m == a % b
    IN  IF a >= 0 \/ m = 0 THEN m ELSE m - b

\* GetCluster with the remainder taken on the uint64_t: (int)(card_id % 200)
GetClusterUnsigned(round, card_id) ==
    ((card_id.hi % 200) * (65536 % 200) + card_id.lo) % 200

\* UniversalPokerGame::GetCluster: return (int)card_id % 200; the statements after
\* it are not reached
GetCluster(round, card_id) == Rem(int(card_id), 200)

\* UniversalPokerGame::UniversalPokerGame: the error of the construction, "" when
\* it returns; no statement of it opens a cluster file (ReadCluster is not called)
UniversalPokerGame_ctor(betting_abstraction, clusterFiles) ==
    IF betting_abstraction \in {"fc", "fcpa"} THEN ""
    ELSE "bettingAbstraction: not supported."

\* std::map::insert: an existing key keeps its value
MapInsert(table, key, value) == table @@ (key :> value)

GameCheckInOffAbsInformationState(gt, info_string) == info_string \in DOMAIN gt

\* UniversalPokerGame::GetOffAbsInformationStateRaise: fatal when the key is missing
GameGetOffAbsInformationStateRaise(gt, info_string) ==
    IF info_string \in DOMAIN gt
    THEN [err |-> "", value |-> gt[info_string]]
    ELSE [err |-> "InformationState not found in Off-Abs!", value |-> 0]

GameAddOffAbsInformationStateRaise(gt, info_string, raise) ==
    [table |-> MapInsert(gt, info_string, raise), ret |-> info_string \notin DOMAIN gt]

(***************************************************************************)
(* UniversalPokerState                                                     *)
(***************************************************************************)
kChancePlayerId == -1
kTerminalPlayerId == -4

\* enum ActionType: kFold = 0 .. kBetDoublePot = 7, with the mask bit of each
ActionOfId ==
    <<"ACTION_FOLD", "ACTION_CHECK_CALL", "ACTION_BET", "ACTION_ALL_IN",
      "ACTION_BET_HALF_POT", "ACTION_OFF_ABS", "ACTION_BET_POT", "ACTION_BET_DOUBLE_POT">>

IdOf(action_type) == (CHOOSE i \in 1..Len(ActionOfId) : ActionOfId[i] = action_type) - 1

\* const char *actions: the character at the index of each mask bit
ActionChar(action_type) ==
    CASE action_type = "ACTION_DEAL" -> "d"
      [] action_type = "ACTION_FOLD" -> "f"
      [] action_type = "ACTION_CHECK_CALL" -> "c"
      [] action_type = "ACTION_BET" -> "p"
      [] action_type = "ACTION_ALL_IN" -> "a"
      [] action_type = "ACTION_BET_HALF_POT" -> "h"
      [] action_type = "ACTION_OFF_ABS" -> "b"
      [] action_type = "ACTION_BET_POT" -> "w"
      [] action_type = "ACTION_BET_DOUBLE_POT" -> "t"

\* UniversalPokerState(game)
NewInitialState(g) ==
    [acpc_state_ |-> initState(g),
     deck_ |-> CardSet(g.numSuits, g.numRanks),
     hole_cards_ |-> [p \in 1..g.numPlayers |-> {}],
     board_cards_ |-> {},
     cur_player_ |-> kChancePlayerId,
     possibleActions_ |-> {"ACTION_DEAL"},
     potSize_ |-> 0, allInSize_ |-> 0, halfpotSize_ |-> 0, offabsSize_ |-> 0,
     betpotSize_ |-> 0, doublepotSize_ |-> 0,
     actionSequence_ |-> <<>>,
     off_abs_information_state_action_ |-> <<>>,
     betting_abstraction_ |-> IF g.bettingAbstraction = "fc" THEN "kFC" ELSE "kFCPA"]

IsTerminal(s) == s.cur_player_ = kTerminalPlayerId
\* every node without an acting player taken for a chance node
IsChanceNodeOrTerminal(s) == s.cur_player_ < 0

IsChanceNode(s) == s.cur_player_ = kChancePlayerId

CurrentPlayer(g, s) ==
    IF IsTerminal(s) THEN kTerminalPlayerId
    ELSE IF IsChanceNode(s) THEN kChancePlayerId
    ELSE currentPlayer(g, s.acpc_state_)

\* the whole pot, the player's own contribution included, to an unfolded player
GetTotalRewardWholePot(g, s, player) ==
    IF s.acpc_state_.playerFolded[player + 1]
    THEN ValueOfState(g, s, player)
    ELSE ValueOfState(g, s, player) + ChipParts(g) * s.acpc_state_.spent[player + 1]

\* GetTotalReward(player): the cards are handed to the engine, which values the hand
GetTotalReward(g, s, player) == ValueOfState(g, s, player)

\* Returns with the first player's reward written to every entry
ReturnsOfFirstPlayer(g, s) ==
    IF ~IsTerminal(s) THEN [p \in 1..g.numPlayers |-> 0]
    ELSE [p \in 1..g.numPlayers |-> GetTotalReward(g, s, 0)]

\* Returns(): zero for every player before the end, GetTotalReward(player) after
Returns(g, s) ==
    IF ~IsTerminal(s) THEN [p \in 1..g.numPlayers |-> 0]
    ELSE [p \in 1..g.numPlayers |-> GetTotalReward(g, s, p - 1)]

\* hole_cards_[player].ToString().size() == 4 &&
\* (board_cards_.ToString().size() == 0 || board_cards_.ToString().size() >= 6)
CardsIndexComputed(s, player) ==
    /\ Len(CardSetToString(s.hole_cards_[player + 1])) = 4
    /\ \/ Len(CardSetToString(s.board_cards_)) = 0
       \/ Len(CardSetToString(s.board_cards_)) >= 6

\* generalIndexer::index fills cards[i / 2] for the characters of the string and
\* hand_index_last reads the cards of all the indexer's rounds: a shorter string
\* leaves cards of the uint8_t cards[7] array uninitialised
IndexerInputComplete(round, hand) == Len(hand) >= 2 * cards_num(round)

\* what hand_index_last may return for a card array with uninitialised cards
UninitIndexes == {0, 1, 201}

\* the values cards_index can take in InformationStateString(player)
CardsIndexes(s, player) ==
    LET hand == CardSetToString(s.hole_cards_[player + 1])
                    \o CardSetToString(s.board_cards_)
        round == s.acpc_state_.round + 1
    IN  IF ~CardsIndexComputed(s, player) THEN {0}
        ELSE IF IndexerInputComplete(round, hand) THEN {GetIndex(round, hand)}
        ELSE UninitIndexes

\* the six printed fields of the information-state string, for a value of cards_index
InformationStateStringOfIndex(g, s, player, cards_index) ==
    LET a == s.acpc_state_
        pot == a.maxSpent * (g.numPlayers - numFolded(g, a))
        cluster_index == GetCluster(a.round + 1, uint64_t(cards_index))
    IN  [Round |-> a.round, Player |-> CurrentPlayer(g, s), Pot |-> pot,
         Money |-> [p \in 1..g.numPlayers |-> Money(g, a, p - 1)],
         InfoAbs |-> cluster_index,
         Sequences |-> [r \in 1..(a.round + 1) |-> BettingSequence(g, a, r - 1)]]

\* InformationStateString(player) at a node where the indexer, if called, gets
\* all its cards (every decision node of a game whose rounds deal the indexer's
\* cards or fewer)
InformationStateString(g, s, player) ==
    LET hole == CardSetToString(s.hole_cards_[player + 1])
        board == CardSetToString(s.board_cards_)
        cards_index == IF Len(hole) = 4 /\ (Len(board) = 0 \/ Len(board) >= 6)
                       THEN GetIndex(s.acpc_state_.round + 1, hole \o board) ELSE 0
    IN  InformationStateStringOfIndex(g, s, player, cards_index)

\* LegalActions without the line that offers kBet
LegalActionsNoBet(s) ==
    IF IsChanceNode(s) THEN ToCardArray(s.deck_)
    ELSE {IdOf(t) : t \in s.possibleActions_ \ {"ACTION_DEAL", "ACTION_BET"}}

\* LegalActions: the remaining cards at a chance node, else the enabled action ids
LegalActions(s) ==
    IF IsChanceNode(s) THEN ToCardArray(s.deck_)
    ELSE {IdOf(t) : t \in s.possibleActions_ \ {"ACTION_DEAL"}}

CheckInOffAbsInformationState(gt, s, info_string) ==
    LET in_game == GameCheckInOffAbsInformationState(gt, info_string)
        in_state == info_string \in DOMAIN s.off_abs_information_state_action_
    IN  in_game \/ in_state

\* the lookup with the game-scope table read before the state-scope table
GetOffAbsInformationStateRaiseGameFirst(gt, s, info_string) ==
    IF info_string \in DOMAIN gt
    THEN [err |-> "", value |-> gt[info_string]]
    ELSE IF info_string \in DOMAIN s.off_abs_information_state_action_
    THEN [err |-> "", value |-> s.off_abs_information_state_action_[info_string]]
    ELSE [err |-> "InformationState not found in Off-Abs!", value |-> 0]

GetOffAbsInformationStateRaise(gt, s, info_string) ==
    IF info_string \in DOMAIN s.off_abs_information_state_action_
    THEN [err |-> "", value |-> s.off_abs_information_state_action_[info_string]]
    ELSE GameGetOffAbsInformationStateRaise(gt, info_string)

\* an insert that overwrites the value of an existing key
AddOffAbsInformationStateRaiseOverwrite(s, info_string, raise) ==
    [st |-> [s EXCEPT !.off_abs_information_state_action_ = (info_string :> raise) @@ @],
     ret |-> TRUE]

AddOffAbsInformationStateRaise(s, info_string, raise) ==
    [st |-> [s EXCEPT !.off_abs_information_state_action_ = MapInsert(@, info_string, raise)],
     ret |-> info_string \notin DOMAIN s.off_abs_information_state_action_]

\* the hole-card test made on the first player instead of the last
HoleCardsMissingFirstPlayer(g, s) == NumCards(s.hole_cards_[1]) < g.numHoleCards

\* hole_cards_[GetNbPlayers() - 1].NumCards() < GetNbHoleCardsRequired()
HoleCardsMissing(g, s) == NumCards(s.hole_cards_[g.numPlayers]) < g.numHoleCards

\* the board taken to be complete at every node
BoardCardsMissingNever(g, s) == FALSE

\* the board taken to be short of cards at every node
BoardCardsMissingAlways(g, s) == TRUE

\* board_cards_.NumCards() < GetNbBoardCardsRequired(GetRound())
BoardCardsMissing(g, s) ==
    NumCards(s.board_cards_) < GetNbBoardCardsRequired(g, s.acpc_state_.round)

\* the interval test with the all-in amount included
InRaiseIntervalClosed(amount, min_bet, allInSize) == amount >= min_bet /\ amount <= allInSize

\* amount >= min_bet && amount < allInSize_
InRaiseInterval(amount, min_bet, allInSize) == amount >= min_bet /\ amount < allInSize

\* the all-in test with equality accepted
AllInAboveBetOrEqual(allInSize, potSize) == allInSize >= potSize

\* allInSize_ > potSize_
AllInAboveBet(allInSize, potSize) == allInSize > potSize

\* potSize_ left at the pot, neither raised to min_bet nor capped
PotSizeUnclamped(currentPot, min_bet, allInSize) == currentPot

\* potSize_: the pot, raised to min_bet and capped at the all-in amount
PotSize(currentPot, min_bet, allInSize) ==
    LET pot == IF currentPot > min_bet THEN currentPot ELSE min_bet
    IN  IF allInSize < pot THEN allInSize ELSE pot

\* the off-abstraction test without the interval test
OffAbsEnabledAnyAmount(known, offabsSize, min_bet, allInSize) == known

\* CheckInOffAbsInformationState(...) and offabsSize_ >= min_bet && offabsSize_ < allInSize_
OffAbsEnabled(known, offabsSize, min_bet, allInSize) ==
    known /\ InRaiseInterval(offabsSize, min_bet, allInSize)

\* half the pot rounded up
HalfPotSizeRoundedUp(maxSpend, currentPot) == maxSpend + ((currentPot + 1) \div 2)

\* halfpotSize_ = MaxSpend() + int(currentPot / 2)
HalfPotSize(maxSpend, currentPot) == maxSpend + (currentPot \div 2)

\* the raise part of _CalculateActionsAndNodeType at a no-limit decision node
\* where raising is valid; s has cur_player_ and the fold/call bits already set
NoLimitRaises(g, gt, s, min_bet) ==
    LET a == s.acpc_state_
        currentPot == a.maxSpent * (g.numPlayers - numFolded(g, a))
        potSize == PotSize(currentPot, min_bet, s.allInSize_)
        halfpotSize == HalfPotSize(a.maxSpent, currentPot)
        betpotSize == a.maxSpent + currentPot
        doublepotSize == a.maxSpent + 2 * currentPot
        info == InformationStateString(g, s, s.cur_player_)
        known == CheckInOffAbsInformationState(gt, s, info)
        offabsSize == IF known THEN GetOffAbsInformationStateRaise(gt, s, info).value ELSE 0
    IN  [s EXCEPT
           !.potSize_ = potSize, !.halfpotSize_ = halfpotSize, !.betpotSize_ = betpotSize,
           !.doublepotSize_ = doublepotSize, !.offabsSize_ = offabsSize,
           !.possibleActions_ =
               @ \cup {"ACTION_BET"}
                 \cup (IF AllInAboveBet(s.allInSize_, potSize) THEN {"ACTION_ALL_IN"} ELSE {})
                 \cup (IF InRaiseInterval(halfpotSize, min_bet, s.allInSize_)
                       THEN {"ACTION_BET_HALF_POT"} ELSE {})
                 \cup (IF InRaiseInterval(betpotSize, min_bet, s.allInSize_)
                       THEN {"ACTION_BET_POT"} ELSE {})
                 \cup (IF InRaiseInterval(doublepotSize, min_bet, s.allInSize_)
                       THEN {"ACTION_BET_DOUBLE_POT"} ELSE {})
                 \cup (IF OffAbsEnabled(known, offabsSize, min_bet, s.allInSize_)
                       THEN {"ACTION_OFF_ABS"} ELSE {})]

\* the limit branch with the all-in bit set as well
LimitRaisesWithAllIn(s) ==
    [s EXCEPT !.possibleActions_ = @ \cup {"ACTION_BET", "ACTION_ALL_IN"}]

\* valid_to_raise in a limit game: possibleActions_ |= ACTION_BET; potSize_ = 0
LimitRaises(s) ==
    [s EXCEPT !.possibleActions_ = @ \cup {"ACTION_BET"}, !.potSize_ = 0]

\* a fold/call-only test that never holds
IsFoldCallOnlyNever(s) == FALSE

\* betting_abstraction_ == BettingAbstraction::kFC
IsFoldCallOnly(s) == s.betting_abstraction_ = "kFC"

\* the decision-node part of _CalculateActionsAndNodeType
ChoiceActions(g, gt, s) ==
    LET a == s.acpc_state_
        rv == raiseIsValid(g, a)
        min_bet == IF rv.set THEN rv.min ELSE 0
        s1 == [s EXCEPT
                 !.cur_player_ = currentPlayer(g, a),
                 !.possibleActions_ =
                     (IF isValidAction(g, a, "f", 0) THEN {"ACTION_FOLD"} ELSE {})
                     \cup (IF isValidAction(g, a, "c", 0) THEN {"ACTION_CHECK_CALL"} ELSE {}),
                 !.potSize_ = 0, !.halfpotSize_ = 0, !.offabsSize_ = 0,
                 !.betpotSize_ = 0, !.doublepotSize_ = 0,
                 !.allInSize_ = IF rv.set THEN rv.max ELSE 0]
    IN  IF IsFoldCallOnly(s) THEN s1
        ELSE IF ~rv.valid THEN s1
        ELSE IF IsLimitGame(g) THEN LimitRaises(s1)
        ELSE NoLimitRaises(g, gt, s1, min_bet)

_CalculateActionsAndNodeType(g, gt, s) ==
    LET a == s.acpc_state_
        chance == [s EXCEPT !.cur_player_ = kChancePlayerId, !.possibleActions_ = {"ACTION_DEAL"}]
        terminal == [s EXCEPT !.cur_player_ = kTerminalPlayerId, !.possibleActions_ = {}]
    IN  IF a.finished
        THEN IF numFolded(g, a) >= g.numPlayers - 1 THEN terminal
             ELSE IF BoardCardsMissing(g, s) THEN chance
             ELSE terminal
        ELSE IF HoleCardsMissing(g, s) THEN chance
        ELSE IF BoardCardsMissing(g, s) THEN chance
        ELSE ChoiceActions(g, gt, s)

\* every raise type handed to the engine with the plain bet's amount
RaiseSizeOfPlainBet(s, action_type) == s.potSize_

\* the amount ApplyChoiceAction hands to the engine for a raise type
RaiseSizeOf(s, action_type) ==
    CASE action_type = "ACTION_BET" -> s.potSize_
      [] action_type = "ACTION_ALL_IN" -> s.allInSize_
      [] action_type = "ACTION_BET_HALF_POT" -> s.halfpotSize_
      [] action_type = "ACTION_OFF_ABS" -> s.offabsSize_
      [] action_type = "ACTION_BET_POT" -> s.betpotSize_
      [] action_type = "ACTION_BET_DOUBLE_POT" -> s.doublepotSize_

\* ApplyChoiceAction; the result is the new state, or the unchanged state and the
\* failed check (SPIEL_CHECK and assert abort the process)
ApplyChoiceAction(g, gt, s, action_type) ==
    LET type == IF action_type = "ACTION_FOLD" THEN "f"
                ELSE IF action_type = "ACTION_CHECK_CALL" THEN "c" ELSE "r"
        size == IF type = "r" THEN RaiseSizeOf(s, action_type) ELSE 0
    IN  IF ~(s.cur_player_ >= 0)
        THEN [st |-> s, err |-> "SPIEL_CHECK_GE(cur_player_, 0)"]
        ELSE IF action_type \notin s.possibleActions_
        THEN [st |-> s, err |-> "assert((possibleActions_ & action_type) > 0)"]
        ELSE IF ~isValidAction(g, s.acpc_state_, type, size)
        THEN [st |-> s, err |-> "assert(IsValidAction(false, a))"]
        ELSE [st |-> _CalculateActionsAndNodeType(g, gt,
                        [s EXCEPT !.actionSequence_ = Append(@, ActionChar(action_type)),
                                  !.acpc_state_ = doAction(g, @, type, size)]),
              err |-> ""]

\* the players who hold fewer hole cards than required
ShortOfHoleCards(g, s) ==
    {p \in Players(g) : NumCards(s.hole_cards_[p + 1]) < g.numHoleCards}

\* the card given to the last player who is short of hole cards
NextHoleCardPlayerLast(g, s) == Max(ShortOfHoleCards(g, s))

\* for (p = 0; p < GetNbPlayers(); ++p): the first player short of hole cards
NextHoleCardPlayer(g, s) == Min(ShortOfHoleCards(g, s))

\* DoApplyAction(action_id): the new state, or the unchanged state and the fatal error
DoApplyAction(g, gt, s, action_id) ==
    IF IsChanceNode(s)
    THEN LET card == action_id % 256
             s1 == [s EXCEPT !.deck_ = RemoveCard(@, card),
                             !.actionSequence_ = Append(@, ActionChar("ACTION_DEAL"))]
             short == ShortOfHoleCards(g, s1)
             s2 == IF short # {}
                   THEN [s1 EXCEPT !.hole_cards_[NextHoleCardPlayer(g, s1) + 1] = AddCard(@, card)]
                   ELSE [s1 EXCEPT !.board_cards_ = AddCard(@, card)]
         IN  IF short # {} \/ BoardCardsMissing(g, s1)
             THEN [st |-> _CalculateActionsAndNodeType(g, gt, s2), err |-> ""]
             ELSE [st |-> s1, err |-> ""]
    ELSE IF action_id \in 0..(Len(ActionOfId) - 1)
         THEN ApplyChoiceAction(g, gt, s, ActionOfId[action_id + 1])
         ELSE [st |-> s, err |-> "Action not recognized"]

(***************************************************************************)
(* AbstractedPokerSearchState (abstracted_poker_search.cpp)                *)
(***************************************************************************)
\* the player the search plays for: AbstractedPokerSearchGame(params, 0, seed)
AI == 0

kOffAbs == IdOf("ACTION_OFF_ABS")

\* GetOpponentAction with `input` read from std::cin; min_bet and max_bet are
\* uninitialised when GetValidToRaise does not write them: `junk` is their content.
\* The result is the state, the returned action and the fatal error, if any.
GetOpponentAction(g, s, input, junk) ==
    LET rv == raiseIsValid(g, s.acpc_state_)
        min_bet == IF rv.set THEN rv.min ELSE junk[1]
        max_bet == IF rv.set THEN rv.max ELSE junk[2]
        add == AddOffAbsInformationStateRaise(
                   s, InformationStateString(g, s, CurrentPlayer(g, s)), input)
    IN  IF IsChanceNode(s) \/ IsTerminal(s)
        THEN [st |-> s, ret |-> -1, err |-> "SPIEL_CHECK_FALSE(IsChanceNode() || IsTerminal())"]
        ELSE IF input = 0 \/ input = 1 THEN [st |-> s, ret |-> input, err |-> ""]
        ELSE IF input >= min_bet /\ input <= max_bet
             THEN IF add.ret THEN [st |-> add.st, ret |-> kOffAbs, err |-> ""]
                  ELSE [st |-> add.st, ret |-> -1,
                        err |-> "Error! Off abs action already exists for this infostate!"]
        ELSE [st |-> s, ret |-> -1, err |-> "Illegal input!"]

\* ChildStep(action): Clone() and ApplyAction on the clone
ChildStep(g, gt, s, action) == DoApplyAction(g, gt, s, action)

\* the values dist_(*rng_) takes: 0 .. DrawRange - 1 stand for the equal parts of [0, 1)
DrawRange == 2

\* the values the generator gives before it is left alone
MaxDraws == 2

\* the search states a caller holds at one time
MaxHandles == 2

\* make_unique / new: an address no object is at
Alloc(heap) == Min((1..(MaxHandles + 1)) \ DOMAIN heap)

\* AbstractedPokerSearchState(game, AI, rng): state_(game), AI(AI), rng_(rng). rng_
\* is a shared_ptr to the generator of the AbstractedPokerSearchGame; `draws` is a
\* history field, the values this state and the states it was copied from drew
AbstractedPokerSearchState(g) ==
    [state_ |-> NewInitialState(g), AI |-> AI, rng_ |-> "rng", draws |-> 0]

\* a Clone whose copy starts with an empty table of custom raises
SearchCloneNoTable(heap, a) ==
    LET c == Min((1..(MaxHandles + 1)) \ DOMAIN heap)
    IN  [heap |-> (c :> [heap[a] EXCEPT !.state_.off_abs_information_state_action_ = <<>>])
                      @@ heap,
         ret |-> c]

\* a Clone that returns the state itself instead of a copy
SearchCloneAliased(heap, a) == [heap |-> heap, ret |-> a]

\* AbstractedPokerSearchState::Clone: make_unique<AbstractedPokerSearchState>(*this),
\* the defaulted copy constructor: state_ copied member by member, rng_ pointing
\* to the same generator
SearchClone(heap, a) ==
    LET c == Alloc(heap)
    IN  [heap |-> (c :> heap[a]) @@ heap, ret |-> c]

\* AbstractedPokerSearchState::ChildStep: child = Clone(); child->state_.ApplyAction(action)
SearchChildStep(g, gt, heap, a, action) ==
    LET c == SearchClone(heap, a)
        r == DoApplyAction(g, gt, c.heap[c.ret].state_, action)
    IN  [heap |-> [c.heap EXCEPT ![c.ret].state_ = r.st], ret |-> c.ret, err |-> r.err]

\* UniversalPokerState::ChanceOutcomes: the cards of the deck in ascending order,
\* each with probability 1 / num_cards
ChanceOutcomes(s) == SortedSeq(ToCardArray(s.deck_))

\* SampleAction(outcomes, z): the first outcome whose cumulated probability exceeds z
SampleAction(outcomes, z) == outcomes[(z * Len(outcomes)) \div DrawRange + 1]

\* AbstractedPokerSearchState::GetChanceAction: SampleAction(ChanceOutcomes(), dist_(*rng_));
\* the generator *rng_ moves on by one value
GetChanceAction(heap, rng, a) ==
    IF ~IsChanceNode(heap[a].state_)
    THEN [heap |-> heap, rng |-> rng, ret |-> -1, err |-> "SPIEL_CHECK_TRUE(IsChanceNode())"]
    ELSE [heap |-> [heap EXCEPT ![a].draws = @ + 1],
          rng |-> [rng EXCEPT !.pos = @ + 1],
          ret |-> SampleAction(ChanceOutcomes(heap[a].state_), rng.seq[rng.pos + 1]),
          err |-> ""]

\* no call made yet
NoInfo == [Round |-> -1, Player |-> -1, Pot |-> 0, Money |-> <<>>, InfoAbs |-> 0,
           Sequences |-> <<>>]
NoCall == [op |-> "none", id |-> -1, legal |-> TRUE, info |-> NoInfo, raise |-> 0,
           ret |-> "none"]

pokerVars == <<game, game_off_abs, state, fatal, last>>

(***************************************************************************)
(* The indexer harness: one input (a hand of the indexer's round, or an    *)
(* index below its size) and the operations applied to it.                 *)
(***************************************************************************)
\* the card text encoding: rank character then suit character
SuitAlphabet == <<"s", "h", "d", "c">>
RankAlphabet == <<"2", "3", "4", "5", "6", "7", "8", "9", "T", "J", "Q", "K", "A">>

SuitOfChar(chr) == (CHOOSE i \in 1..4 : SuitAlphabet[i] = chr) - 1

HandString(cards) ==
    [i \in 1..(2 * Len(cards)) |->
        IF i % 2 = 1 THEN RankAlphabet[deck_get_rank(cards[(i + 1) \div 2]) + 1]
        ELSE SuitAlphabet[deck_get_suit(cards[i \div 2]) + 1]]

\* a suit relabelling applied to a card string: every suit character is replaced
RelabelString(p, str) ==
    [i \in 1..Len(str) |->
        IF i % 2 = 0 THEN SuitAlphabet[p[SuitOfChar(str[i])] + 1]
        ELSE str[i]]

\* the hand a well-formed card string spells, as the set of cards of each round
StringRounds(round, str) ==
    LET card(k) == <<str[2 * k - 1], str[2 * k]>>
    IN  [r \in 1..round |-> {card(k) : k \in (cards_num(r - 1) + 1)..cards_num(r)}]

\* two card strings are isomorphic: a suit relabelling maps one to the other,
\* round by round, ranks kept
Isomorphic(round, s1, s2) ==
    \E p \in SuitPerms : StringRounds(round, RelabelString(p, s1)) = StringRounds(round, s2)

NoIx == [kind |-> "none", step |-> "idle", round |-> 0, hand |-> <<>>, index |-> -1,
         hand2 |-> <<>>, index2 |-> -1, id |-> -1, canon |-> <<>>, reindex |-> -1]

InitIdx ==
    /\ game = GameDef("nolimit", "fcpa", <<MaxStack, MaxStack>>, 2)
    /\ game_off_abs = <<>>
    /\ state = NewInitialState(game)
    /\ fatal = ""
    /\ last = NoCall
    /\ ix \in UNION {
        {[NoIx EXCEPT !.kind = "hand", !.step = "input", !.round = r, !.hand = HandString(h)] :
            h \in Hands[r]}
        \cup {[NoIx EXCEPT !.kind = "id", !.step = "input", !.round = r, !.id = i] :
              i \in 0..getSize(r)} : r \in 1..MaxRound}

\* generalIndexer::index on the input hand
Index ==
    /\ ix.kind = "hand" /\ ix.step = "input"
    /\ Len(ix.hand) = 2 * cards_num(ix.round)
    /\ \E i \in {index(ix.round, ix.hand)} :
          ix' = [ix EXCEPT !.step = "indexed", !.index = i]
    /\ UNCHANGED pokerVars

\* generalIndexer::index on the input hand with its suits relabelled by p
IndexRelabelled(p) ==
    /\ ix.step = "indexed"
    /\ \E s2 \in {RelabelString(p, ix.hand)} :
       \E i \in {index(ix.round, s2)} :
          ix' = [ix EXCEPT !.step = "relabelled", !.hand2 = s2, !.index2 = i]
    /\ UNCHANGED pokerVars

\* generalIndexer::canonicalHand on the index of the input hand, and index on its result
CanonicalHandOfIndex ==
    /\ ix.step = "indexed"
    /\ ix.index < getSize(ix.round)
    /\ \E c \in {canonicalHand(ix.round, ix.index)} :
       \E i \in {index(ix.round, c)} :
          ix' = [ix EXCEPT !.step = "unindexed", !.id = ix.index, !.canon = c, !.reindex = i]
    /\ UNCHANGED pokerVars

\* generalIndexer::canonicalHand on the input index, and index on its result
CanonicalHandOfId ==
    /\ ix.kind = "id" /\ ix.step = "input"
    /\ ix.id < getSize(ix.round)
    /\ \E c \in {canonicalHand(ix.round, ix.id)} :
       \E i \in {index(ix.round, c)} :
          ix' = [ix EXCEPT !.step = "roundtrip", !.canon = c, !.reindex = i]
    /\ UNCHANGED pokerVars

NextIdx ==
    \/ Index
    \/ \E p \in SuitPerms : IndexRelabelled(p)
    \/ CanonicalHandOfIndex
    \/ CanonicalHandOfId

vars == <<ix, game, game_off_abs, state, fatal, last>>

SpecIdx == InitIdx /\ [][NextIdx]_vars

(***************************************************************************)
(* The indexer objects and their member functions called one at a time on  *)
(* one input: ix holds the call and, after it, its outcome.                *)
(***************************************************************************)
NoApi == [kind |-> "api", step |-> "input", op |-> "none", indexer |-> 0, round |-> 0,
          hand |-> <<>>, id |-> -1, junk |-> <<>>, initOk |-> TRUE, abstraction |-> "", files |-> TRUE,
          card_id |-> [hi |-> 0, lo |-> 0], ret |-> -1, canon |-> <<>>, err |-> ""]

\* the card strings given to index(): the hands of the rounds up to IndexerRounds
ApiStrings == UNION {{HandString(h) : h \in Hands[r]} : r \in 1..IndexerRounds}

\* a string of more cards than the cards[7] array holds
LongString == HandString(SortedSeq(Deck52))

\* what the cards[7] array can hold past the decoded cards: here other cards of
\* the deck, in ascending order
JunkCards(cardString, rounds) ==
    LET cards == DecodeCards(cardString)
        missing == cards_num(rounds) - Len(cards)
    IN  IF missing <= 0 THEN {<<>>}
        ELSE {SortedSeq(S) : S \in KSubsets(Deck52 \ Range(cards), missing)}

\* the strings of one card
OneCardStrings == {HandString(<<c>>) : c \in Deck52}

\* the indices given to canonicalHand of an indexer of `rounds` rounds: all the
\* indices below its size and the first ones that are not
ApiIds(rounds) == 0..(hand_indexer_size(rounds) + 2)

\* the round arguments given to the constructor and to getSize / getCardsNum: the
\* rounds up to `most` and the first values on either side
ApiRounds(most) == (0 - 1)..(most + 2)

\* the sizes of the four rounds on the full deck, as uint64_t
size_per_round_gt ==
    << [hi |-> 0, lo |-> 169], [hi |-> 19, lo |-> 41608],
       [hi |-> 842, lo |-> 9226], [hi |-> 37052, lo |-> 47548] >>

Below(v, w) == v.hi < w.hi \/ (v.hi = w.hi /\ v.lo < w.lo)

\* the indices given to GetCluster for a round: indices of the round on the full
\* deck, around the multiples of 200 and around 2^16 and 2^31
ApiCardIds(round) ==
    {v \in [hi : {0, 1, 19, 842, 32767, 32768, 37052},
            lo : {0, 1, 168, 199, 200, 201, 9225, 41607, 47547, 65535}] :
        Below(v, size_per_round_gt[round])}

ApiInputs ==
    {[NoApi EXCEPT !.op = "generalIndexer::index", !.indexer = R, !.hand = str] :
        R \in 1..MaxRound, str \in ApiStrings \cup {LongString}}
    \cup {[NoApi EXCEPT !.op = "preflopIndexer::index", !.hand = str] :
            str \in OneCardStrings \cup ApiStrings \cup {LongString}}
    \cup {[NoApi EXCEPT !.op = "preflopIndexer::canonicalHand", !.id = i] : i \in ApiIds(1)}
    \cup UNION {{[NoApi EXCEPT !.op = "generalIndexer::canonicalHand", !.indexer = R, !.id = i] :
                    i \in ApiIds(R)} : R \in 1..MaxRound}
    \cup {[NoApi EXCEPT !.op = "UniversalPokerGame::UniversalPokerGame",
                        !.abstraction = b, !.files = f] :
            b \in {"fc", "fcpa", "fcp"}, f \in BOOLEAN}
    \cup UNION {{[NoApi EXCEPT !.op = "UniversalPokerGame::GetCluster", !.round = r,
                               !.card_id = v, !.files = f] :
                    v \in ApiCardIds(r), f \in BOOLEAN} : r \in 1..4}
    \cup {[NoApi EXCEPT !.op = "generalIndexer::generalIndexer", !.id = r, !.initOk = ok] :
            r \in ApiRounds(4), ok \in BOOLEAN}
    \cup {[NoApi EXCEPT !.op = o, !.indexer = R, !.round = r] :
            o \in {"generalIndexer::getSize", "generalIndexer::getCardsNum"},
            R \in 1..MaxRound, r \in ApiRounds(MaxRound)}

InitApi ==
    /\ game = GameDef("nolimit", "fcpa", <<MaxStack, MaxStack>>, 2)
    /\ game_off_abs = <<>>
    /\ state = NewInitialState(game)
    /\ fatal = ""
    /\ last = NoCall
    /\ ix \in ApiInputs

\* generalIndexer::index on the input string
ApiIndex ==
    /\ ix.step = "input" /\ ix.op = "generalIndexer::index"
    /\ \E junk \in JunkCards(ix.hand, ix.indexer) :
       \E r \in {generalIndexer_index(ix.indexer, ix.hand, junk)} :
          ix' = [ix EXCEPT !.step = "done", !.junk = junk, !.ret = r.ret, !.err = r.err]
    /\ UNCHANGED pokerVars

\* preflopIndexer::index on the input string
ApiPreflopIndex ==
    /\ ix.step = "input" /\ ix.op = "preflopIndexer::index"
    /\ \E junk \in JunkCards(ix.hand, 1) :
       \E r \in {preflopIndexer_index(ix.hand, junk)} :
          ix' = [ix EXCEPT !.step = "done", !.junk = junk, !.ret = r.ret, !.err = r.err]
    /\ UNCHANGED pokerVars

\* preflopIndexer::canonicalHand on the input index
ApiPreflopCanonicalHand ==
    /\ ix.step = "input" /\ ix.op = "preflopIndexer::canonicalHand"
    /\ \E r \in {preflopIndexer_canonicalHand(ix.id)} :
          ix' = [ix EXCEPT !.step = "done", !.canon = r.ret, !.err = r.err]
    /\ UNCHANGED pokerVars

\* generalIndexer::canonicalHand on the input index
ApiCanonicalHand ==
    /\ ix.step = "input" /\ ix.op = "generalIndexer::canonicalHand"
    /\ \E r \in {generalIndexer_canonicalHand(ix.indexer, ix.id)} :
          ix' = [ix EXCEPT !.step = "done", !.canon = r.ret, !.err = r.err]
    /\ UNCHANGED pokerVars

\* generalIndexer::generalIndexer(r); the library call succeeds or fails
ApiConstruct ==
    /\ ix.step = "input" /\ ix.op = "generalIndexer::generalIndexer"
    /\ \E r \in {generalIndexer_ctor(ix.id, ix.initOk)} :
          ix' = [ix EXCEPT !.step = "done", !.indexer = r.round, !.err = r.err]
    /\ UNCHANGED pokerVars

\* generalIndexer::getSize(r)
ApiGetSize ==
    /\ ix.step = "input" /\ ix.op = "generalIndexer::getSize"
    /\ \E r \in {generalIndexer_getSize(ix.indexer, ix.round)} :
          ix' = [ix EXCEPT !.step = "done", !.ret = r.ret, !.err = r.err]
    /\ UNCHANGED pokerVars

\* generalIndexer::getCardsNum(r)
ApiGetCardsNum ==
    /\ ix.step = "input" /\ ix.op = "generalIndexer::getCardsNum"
    /\ \E r \in {generalIndexer_getCardsNum(ix.indexer, ix.round)} :
          ix' = [ix EXCEPT !.step = "done", !.ret = r.ret, !.err = r.err]
    /\ UNCHANGED pokerVars

\* UniversalPokerGame::UniversalPokerGame, with or without the cluster files
ApiNewGame ==
    /\ ix.step = "input" /\ ix.op = "UniversalPokerGame::UniversalPokerGame"
    /\ ix' = [ix EXCEPT !.step = "done",
                        !.err = UniversalPokerGame_ctor(ix.abstraction, ix.files)]
    /\ UNCHANGED pokerVars

\* GetCluster(round, card_id) on a game constructed with or without the cluster files
ApiGetCluster ==
    /\ ix.step = "input" /\ ix.op = "UniversalPokerGame::GetCluster"
    /\ ix' = [ix EXCEPT !.step = "done", !.ret = GetCluster(ix.round, ix.card_id)]
    /\ UNCHANGED pokerVars

NextApi ==
    \/ ApiNewGame
    \/ ApiGetCluster
    \/ ApiConstruct
    \/ ApiGetSize
    \/ ApiGetCardsNum
    \/ ApiIndex
    \/ ApiPreflopIndex
    \/ ApiPreflopCanonicalHand
    \/ ApiCanonicalHand

SpecApi == InitApi /\ [][NextApi]_vars

(***************************************************************************)
(* Properties of the indexer                                               *)
(***************************************************************************)
\* the index every hand of a round gets, and the hands that get a given index
IndexOf == [r \in 1..MaxRound |-> [h \in Hands[r] |-> index(r, HandString(h))]]
Fiber(r, i) == {h \in Hands[r] : IndexOf[r][h] = i}

MaxActionId == 9

\* the raise amounts a caller registers or types
RaiseInputs == {1, 3, MaxStack}

\* contents of uninitialised min_bet / max_bet
Junk == {<<0, 0>>, <<0, MaxStack>>}

\* action-id paths from the first decision node to the nodes whose
\* information-state strings callers register raises for
RegPaths == {<<>>, <<1>>}

\* the decision node reached by the action ids of path, the cards dealt lowest first
RECURSIVE PlayPath(_, _, _)
PlayPath(g, s, path) ==
    LET deal == IsChanceNode(s) /\ s.deck_ # {}
    IN  IF ~deal /\ path = <<>> THEN s
        ELSE CHOOSE r \in
               {PlayPath(g, t, IF deal THEN path ELSE Tail(path)) :
                  t \in {DoApplyAction(g, <<>>, s,
                                       IF deal THEN Min(s.deck_) ELSE Head(path)).st}} : TRUE

RegInfos ==
    [g \in GameParams |->
        {InformationStateString(g, s, s.cur_player_) :
            s \in {PlayPath(g, NewInitialState(g), path) : path \in RegPaths}}]

Init ==
    /\ game \in GameParams
    /\ game_off_abs = <<>>
    /\ state = NewInitialState(game)
    /\ fatal = ""
    /\ last = NoCall
    /\ ix = NoIx

\* State::ApplyAction with one of the legal actions
ApplyAction(id) ==
    /\ fatal = ""
    /\ id \in LegalActions(state)
    /\ \E r \in {DoApplyAction(game, game_off_abs, state, id)} :
          /\ state' = r.st
          /\ fatal' = r.err
    /\ last' = [NoCall EXCEPT !.op = "ApplyAction", !.id = id]
    /\ UNCHANGED <<game, game_off_abs, ix>>

\* callers register their custom raises ahead of the nodes they are for: before
\* the first betting action of the hand
BeforeBetting == state.acpc_state_.action[1] = <<>>

\* UniversalPokerState::AddOffAbsInformationStateRaise called on the state
StateAddOffAbs(info, raise) ==
    /\ fatal = ""
    /\ BeforeBetting
    /\ \E r \in {AddOffAbsInformationStateRaise(state, info, raise)} :
          /\ state' = r.st
          /\ last' = [NoCall EXCEPT !.op = "AddOffAbsInformationStateRaise",
                                    !.info = info, !.raise = raise,
                                    !.ret = IF r.ret THEN "true" ELSE "false"]
    /\ UNCHANGED <<game, game_off_abs, fatal, ix>>

\* UniversalPokerGame::AddOffAbsInformationStateRaise called on the game
GameAddOffAbs(info, raise) ==
    /\ fatal = ""
    /\ BeforeBetting
    /\ \E r \in {GameAddOffAbsInformationStateRaise(game_off_abs, info, raise)} :
          /\ game_off_abs' = r.table
          /\ last' = [NoCall EXCEPT !.op = "Game::AddOffAbsInformationStateRaise",
                                    !.info = info, !.raise = raise,
                                    !.ret = IF r.ret THEN "true" ELSE "false"]
    /\ UNCHANGED <<game, state, fatal, ix>>

\* one turn of the loop of ChildPass at an opponent's decision node:
\* child = child->ChildStep(child->GetOpponentAction())
OpponentStep(input, junk) ==
    /\ fatal = ""
    /\ ~IsTerminal(state) /\ CurrentPlayer(game, state) # AI
    /\ ~IsChanceNode(state) /\ CurrentPlayer(game, state) >= 0
    /\ \E o \in {GetOpponentAction(game, state, input, junk)} :
          /\ last' = [NoCall EXCEPT !.op = "GetOpponentAction", !.id = o.ret,
                                    !.info = InformationStateString(game, state,
                                                 CurrentPlayer(game, state)),
                                    !.raise = input,
                                    !.ret = IF o.err = "" THEN "action" ELSE "fatal"]
          /\ IF o.err # ""
             THEN state' = o.st /\ fatal' = o.err
             ELSE \E r \in {ChildStep(game, game_off_abs, o.st, o.ret)} :
                     state' = r.st /\ fatal' = r.err
    /\ UNCHANGED <<game, game_off_abs, ix>>

\* State::ApplyAction with an action id that is not one of the legal actions
ApplyIllegalAction(id) ==
    /\ fatal = ""
    /\ id \notin LegalActions(state)
    /\ \E r \in {DoApplyAction(game, game_off_abs, state, id)} :
          /\ state' = r.st
          /\ fatal' = r.err
    /\ last' = [NoCall EXCEPT !.op = "ApplyAction", !.id = id, !.legal = FALSE]
    /\ UNCHANGED <<game, game_off_abs, ix>>

\* InformationStateString(player) called on the state, at any node
QueryInformationState(player) ==
    /\ fatal = ""
    /\ \E i \in CardsIndexes(state, player) :
          last' = [NoCall EXCEPT
                     !.op = "InformationStateString", !.id = player,
                     !.info = InformationStateStringOfIndex(game, state, player, i),
                     !.raise = i,
                     !.ret = IF CardsIndexComputed(state, player) THEN "index" ELSE "sentinel"]
    /\ UNCHANGED <<game, game_off_abs, state, fatal, ix>>

Next ==
    \/ \E id \in 0..MaxActionId : ApplyAction(id)
    \/ \E input \in {0, 1} \cup RaiseInputs, junk \in Junk : OpponentStep(input, junk)

\* the games played with legal actions, by callers and by the search driver
Spec == Init /\ [][Next]_vars

InitOffAbs == Init /\ game = OffAbsGame

NextOffAbs ==
    \/ \E id \in 0..MaxActionId : ApplyAction(id)
    \/ \E input \in {0, 1} \cup RaiseInputs, junk \in Junk : OpponentStep(input, junk)
    \/ \E info \in RegInfos[game], raise \in RaiseInputs :
          \/ StateAddOffAbs(info, raise)
          \/ GameAddOffAbs(info, raise)

\* the one-round game with custom raises registered on the state and on the game
SpecOffAbs == InitOffAbs /\ [][NextOffAbs]_vars

InitRaw == Init /\ game \in {OffAbsGame, GameDef("limit", "fcpa", <<>>, 2)}

NextRaw ==
    \/ \E id \in 0..MaxActionId : ApplyAction(id)
    \/ \E id \in 0..MaxActionId : ApplyIllegalAction(id)

\* callers that apply any action id, legal or not
SpecRaw == InitRaw /\ [][NextRaw]_vars

InitInfo ==
    /\ game = HoldemGame
    /\ game_off_abs = <<>>
    /\ state = NewInitialState(game)
    /\ fatal = ""
    /\ last = NoCall
    /\ ix = NoIx

\* the dealer gives the lowest or the highest card of the deck
NextInfo ==
    \/ \E id \in 0..MaxActionId :
          /\ IsChanceNode(state) => id \in {Min(state.deck_), Max(state.deck_)}
          /\ ApplyAction(id)
    \/ \E player \in Players(game) : QueryInformationState(player)

\* the three-round game with the information state queried at every node
SpecInfo == InitInfo /\ [][NextInfo]_vars

(***************************************************************************)
(* Search states on the heap: the states a caller holds, each a unique_ptr *)
(* to an AbstractedPokerSearchState, and the generator of the search game. *)
(***************************************************************************)
NoHeapOp == [op |-> "none", target |-> 0, source |-> 0, action |-> -1,
             pos |-> 0, draws |-> 0, outcomes |-> <<>>]

Handles == 1..MaxHandles

\* the one-round no-limit game the search states are of
SearchGame == GameDef("nolimit", "fcpa", <<2, 2>>, 1)

\* the state a handle points to
Held(h) == ix.heap[ix.handles[h]]

\* the handles after `to` is given the object at address a, and the heap without
\* the objects no handle points to any more; an object is then named by the
\* first handle that points to it (addresses are not observable)
Assign(heap, handles, to, a) ==
    LET hs == [handles EXCEPT ![to] = a]
        first(b) == Min({h \in Handles : hs[h] = b})
    IN  [handles |-> [h \in Handles |-> IF hs[h] = 0 THEN 0 ELSE first(hs[h])],
         heap |-> [n \in {first(b) : b \in Range(hs) \ {0}} |->
                     heap[CHOOSE b \in Range(hs) \ {0} : first(b) = n]]]

\* AbstractedPokerSearchGame(params, AI, seed) and the state its constructor
\* arguments give: one game, its generator seeded, one state held
InitClone ==
    /\ game = SearchGame
    /\ game_off_abs = <<>>
    /\ state = NewInitialState(game)
    /\ fatal = ""
    /\ last = NoCall
    /\ ix \in {[kind |-> "heap",
                handles |-> [h \in Handles |-> IF h = 1 THEN 1 ELSE 0],
                heap |-> (1 :> AbstractedPokerSearchState(game)),
                rng |-> [seq |-> seq, pos |-> 0],
                last |-> NoHeapOp] :
                  seq \in [1..MaxDraws -> 0..(DrawRange - 1)]}

\* to = from->Clone()
HeapClone(from, to) ==
    /\ ix.handles[from] # 0 /\ ix.handles[to] = 0
    /\ \E c \in {SearchClone(ix.heap, ix.handles[from])} :
       \E n \in {Assign(c.heap, ix.handles, to, c.ret)} :
          ix' = [ix EXCEPT !.heap = n.heap, !.handles = n.handles,
                           !.last = [NoHeapOp EXCEPT !.op = "Clone", !.target = to,
                                                     !.source = from]]
    /\ UNCHANGED pokerVars

\* to = from->ChildStep(action) with one of the legal actions; to is an empty
\* handle, or from itself, whose state is then destroyed
HeapChildStep(from, to, action) ==
    /\ ix.handles[from] # 0
    /\ to = from \/ ix.handles[to] = 0
    /\ action \in LegalActions(Held(from).state_)
    /\ \E c \in {SearchChildStep(game, game_off_abs, ix.heap, ix.handles[from], action)} :
       \E n \in {Assign(c.heap, ix.handles, to, c.ret)} :
          ix' = [ix EXCEPT !.heap = n.heap, !.handles = n.handles,
                           !.last = [NoHeapOp EXCEPT !.op = "ChildStep", !.target = to,
                                                     !.source = from]]
    /\ UNCHANGED pokerVars

\* h->state_.AddOffAbsInformationStateRaise(InformationStateString(CurrentPlayer()), raise)
\* as GetOpponentAction does, at the first decision node of the hand
HeapRegister(h, raise) ==
    /\ ix.handles[h] # 0
    /\ ~IsChanceNode(Held(h).state_) /\ ~IsTerminal(Held(h).state_)
    /\ Held(h).state_.acpc_state_.action[1] = <<>>
    /\ \E info \in {InformationStateString(game, Held(h).state_,
                                            CurrentPlayer(game, Held(h).state_))} :
       \E r \in {AddOffAbsInformationStateRaise(Held(h).state_, info, raise)} :
          ix' = [ix EXCEPT !.heap[ix.handles[h]].state_ = r.st,
                           !.last = [NoHeapOp EXCEPT
                                       !.op = "AddOffAbsInformationStateRaise",
                                       !.target = h, !.source = h]]
    /\ UNCHANGED pokerVars

\* one turn of the loop of ChildPass at a chance node:
\* h = h->ChildStep(h->GetChanceAction())
HeapChanceStep(h) ==
    /\ ix.handles[h] # 0
    /\ IsChanceNode(Held(h).state_) /\ Held(h).state_.deck_ # {}
    /\ ix.rng.pos < MaxDraws
    /\ \E d \in {GetChanceAction(ix.heap, ix.rng, ix.handles[h])} :
       \E c \in {SearchChildStep(game, game_off_abs, d.heap, ix.handles[h], d.ret)} :
       \E n \in {Assign(c.heap, ix.handles, h, c.ret)} :
          ix' = [ix EXCEPT !.heap = n.heap, !.handles = n.handles,
                           !.rng = d.rng,
                           !.last = [NoHeapOp EXCEPT
                                       !.op = "GetChanceAction", !.target = h,
                                       !.source = h, !.action = d.ret,
                                       !.pos = ix.rng.pos, !.draws = Held(h).draws,
                                       !.outcomes = ChanceOutcomes(Held(h).state_)]]
    /\ UNCHANGED pokerVars

NextClone ==
    \/ \E from, to \in Handles : HeapClone(from, to)
    \/ \E from, to \in Handles, action \in 0..MaxActionId : HeapChildStep(from, to, action)
    \/ \E h \in Handles, raise \in {2} : HeapRegister(h, raise)
    \/ \E h \in Handles : HeapChanceStep(h)

\* search states cloned from one another and advanced in any order
SpecClone == InitClone /\ [][NextClone]_vars

(***************************************************************************)
(* The search driver: NewInitialState, Child and ChildPass, with the loop   *)
(* of ChildPass taken one turn at a time (a turn waits for the generator or *)
(* for the operator's input), next to callers that play the state directly. *)
(***************************************************************************)
\* the loop of ChildPass left at the first node without an acting opponent
ChildPassContinuesAtOpponent(g, s) ==
    ~IsTerminal(s) /\ ~IsChanceNode(s) /\ CurrentPlayer(g, s) # AI

\* while (!child->IsTerminal() && child->CurrentPlayer() != child->AI)
ChildPassContinues(g, s) == ~IsTerminal(s) /\ CurrentPlayer(g, s) # AI

\* a loop body without the chance branch
LoopBranchOpponentOnly(g, s) ==
    IF CurrentPlayer(g, s) >= 0 THEN "opponent" ELSE "none"

\* if (child->IsChanceNode()) ... else if (child->CurrentPlayer() >= 0) ...
LoopBranch(g, s) ==
    IF IsChanceNode(s) THEN "chance"
    ELSE IF CurrentPlayer(g, s) >= 0 THEN "opponent" ELSE "none"

\* who uses the state (mode), where the driver is (pc) and the call it is in (op)
NoSearch == [kind |-> "search", mode |-> "play", pc |-> "start", op |-> "none"]

InitSearch ==
    /\ game \in GameParams
    /\ game_off_abs = <<>>
    /\ state = NewInitialState(game)
    /\ fatal = ""
    /\ last = NoCall
    /\ ix \in {[NoSearch EXCEPT !.mode = m] : m \in {"play", "search"}}

\* a caller of the state itself applies a legal action
PlayAction(id) ==
    /\ ix.mode = "play"
    /\ ApplyAction(id)

\* AbstractedPokerSearchGame::NewInitialState: a new state, then state->ChildPass()
SearchNewInitialState ==
    /\ ix.mode = "search" /\ ix.pc = "start"
    /\ ix' = [ix EXCEPT !.pc = "loop", !.op = "NewInitialState"]
    /\ last' = [NoCall EXCEPT !.op = "NewInitialState"]
    /\ UNCHANGED <<game, game_off_abs, state, fatal>>

\* Child(action) on a state the driver returned: ChildStep(action), then ChildPass()
SearchChild(action) ==
    /\ ix.mode = "search" /\ ix.pc = "returned" /\ fatal = ""
    /\ \E r \in {ChildStep(game, game_off_abs, state, action)} :
          /\ state' = r.st
          /\ fatal' = r.err
    /\ ix' = [ix EXCEPT !.pc = "loop", !.op = "Child"]
    /\ last' = [NoCall EXCEPT !.op = "Child", !.id = action,
                              !.legal = (action \in LegalActions(state))]
    /\ UNCHANGED <<game, game_off_abs>>

\* ChildPass() on a state the driver returned: Clone(), then the loop
SearchChildPass ==
    /\ ix.mode = "search" /\ ix.pc = "returned" /\ fatal = ""
    /\ ix' = [ix EXCEPT !.pc = "loop", !.op = "ChildPass"]
    /\ last' = [NoCall EXCEPT !.op = "ChildPass"]
    /\ UNCHANGED <<game, game_off_abs, state, fatal>>

\* a turn of the loop at a chance node: child = child->ChildStep(child->GetChanceAction()),
\* z the value the generator gives
LoopChance(z) ==
    /\ ix.mode = "search" /\ ix.pc = "loop" /\ fatal = ""
    /\ ChildPassContinues(game, state)
    /\ LoopBranch(game, state) = "chance"
    /\ \E d \in {GetChanceAction(1 :> [AbstractedPokerSearchState(game) EXCEPT !.state_ = state],
                                 [seq |-> <<z>>, pos |-> 0], 1)} :
          /\ last' = [NoCall EXCEPT !.op = "GetChanceAction", !.id = d.ret]
          /\ IF d.err # ""
             THEN state' = state /\ fatal' = d.err
             ELSE \E r \in {ChildStep(game, game_off_abs, state, d.ret)} :
                     state' = r.st /\ fatal' = r.err
    /\ UNCHANGED <<game, game_off_abs, ix>>

\* a turn of the loop at an opponent's node: child = child->ChildStep(child->GetOpponentAction())
LoopOpponent(input, junk) ==
    /\ ix.mode = "search" /\ ix.pc = "loop"
    /\ ChildPassContinues(game, state)
    /\ LoopBranch(game, state) = "opponent"
    /\ OpponentStep(input, junk)

\* the loop condition is false: return child
LoopExit ==
    /\ ix.mode = "search" /\ ix.pc = "loop" /\ fatal = ""
    /\ ~ChildPassContinues(game, state)
    /\ ix' = [ix EXCEPT !.pc = "returned"]
    /\ last' = [NoCall EXCEPT !.op = "return"]
    /\ UNCHANGED <<game, game_off_abs, state, fatal>>

\* the turns of the loop of ChildPass
LoopStep ==
    \/ \E z \in 0..(DrawRange - 1) : LoopChance(z)
    \/ \E input \in {0, 1} \cup RaiseInputs, junk \in Junk : LoopOpponent(input, junk)
    \/ LoopExit

\* the actions a caller of the state plays
PlayStep == \E id \in 0..MaxActionId : PlayAction(id)

NextSearch ==
    \/ PlayStep
    \/ SearchNewInitialState
    \/ \E action \in 0..MaxActionId : SearchChild(action)
    \/ SearchChildPass
    \/ LoopStep

\* hands played directly and hands advanced by the search driver
SpecSearch == InitSearch /\ [][NextSearch]_vars

\* ENABLED PlayStep: the state has a legal action for the caller to apply
PlayEnabled ==
    /\ ix.mode = "play" /\ fatal = ""
    /\ LegalActions(state) \cap (0..MaxActionId) # {}

\* ENABLED LoopStep: the loop is running and its condition is false, or its
\* body has a branch for the node
LoopEnabled ==
    /\ ix.mode = "search" /\ ix.pc = "loop" /\ fatal = ""
    /\ ChildPassContinues(game, state) => LoopBranch(game, state) # "none"

\* a caller that plays keeps playing until no action is legal; the loop of
\* ChildPass, once entered, runs on, the generator and the operator answering.
\* This is WF_vars(PlayStep) /\ WF_vars(LoopStep), with the enabling conditions
\* written out: every step of a playing caller is a PlayStep and every step
\* taken while the loop runs is a LoopStep.
SpecSearchFair ==
    /\ SpecSearch
    /\ WF_vars(LoopExit)
    /\ ([]<>(~PlayEnabled) \/ []<><<ix.mode = "play">>_vars)
    /\ ([]<>(~LoopEnabled) \/ []<><<ix.pc = "loop">>_vars)

(***************************************************************************)
(* Properties of the betting state machine                                 *)
(***************************************************************************)
IsDecisionNode(s) == ~IsTerminal(s) /\ ~IsChanceNode(s)

\* what the engine reports about raising at the current state
EngineRaise == raiseIsValid(game, state.acpc_state_)

\* a no-limit decision node, abstraction not fold/call-only, raising valid
NoLimitRaiseNode ==
    /\ IsDecisionNode(state)
    /\ game.betting = "nolimit"
    /\ state.betting_abstraction_ # "kFC"
    /\ EngineRaise.valid

CardsToDeal ==
    \/ \E p \in Players(game) : Cardinality(state.hole_cards_[p + 1]) < game.numHoleCards
    \/ Cardinality(state.board_cards_) <
           GetNbBoardCardsRequired(game, state.acpc_state_.round)

\* C4: node-type rule. A non-terminal state is a chance node, with the deal as its
\* only possible action, exactly when a player holds fewer hole cards than required
\* or the board holds fewer cards than the current round requires; otherwise it is
\* a decision node whose current player is the engine's current player.
C4_NodeTypeRule ==
    ~IsTerminal(state) =>
        /\ CardsToDeal <=>
              (state.cur_player_ = kChancePlayerId /\ state.possibleActions_ = {"ACTION_DEAL"})
        /\ ~CardsToDeal =>
              /\ state.cur_player_ = currentPlayer(game, state.acpc_state_)
              /\ CurrentPlayer(game, state) = currentPlayer(game, state.acpc_state_)
              /\ state.cur_player_ \in Players(game)

\* a chance node in the second round: the hole cards are dealt, the board is short
C4_Witness ==
    /\ IsChanceNode(state)
    /\ state.acpc_state_.round = 1
    /\ \A p \in Players(game) : Cardinality(state.hole_cards_[p + 1]) = game.numHoleCards
    /\ state.board_cards_ = {}

\* C5: applying an action id that is not in the legal-action set ends in a fatal
\* error and produces no successor state, at decision nodes and at chance nodes.
C5_IllegalActionFails ==
    (last.op = "ApplyAction" /\ ~last.legal) => fatal # ""

\* a card that is not in the deck was applied at a chance node and was dealt: two
\* players hold the same card
C5_Witness ==
    /\ last.op = "ApplyAction" /\ ~last.legal /\ fatal = ""
    /\ \E p, q \in Players(game) :
          p # q /\ last.id \in state.hole_cards_[p + 1] \cap state.hole_cards_[q + 1]

\* C6: at a no-limit decision node with raising valid for [min_bet, all_in], each of
\* bet-half-pot, bet-pot and bet-double-pot is enabled exactly when its own amount a
\* satisfies min_bet <= a < all_in.
C6_PotRelativeBetsInInterval ==
    NoLimitRaiseNode =>
        LET min_bet == EngineRaise.min
            all_in == EngineRaise.max
        IN  /\ "ACTION_BET_HALF_POT" \in state.possibleActions_
                  <=> (min_bet <= state.halfpotSize_ /\ state.halfpotSize_ < all_in)
            /\ "ACTION_BET_POT" \in state.possibleActions_
                  <=> (min_bet <= state.betpotSize_ /\ state.betpotSize_ < all_in)
            /\ "ACTION_BET_DOUBLE_POT" \in state.possibleActions_
                  <=> (min_bet <= state.doublepotSize_ /\ state.doublepotSize_ < all_in)

\* bet-half-pot is enabled while bet-pot and bet-double-pot are not
C6_Witness ==
    /\ NoLimitRaiseNode
    /\ "ACTION_BET_HALF_POT" \in state.possibleActions_
    /\ "ACTION_BET_POT" \notin state.possibleActions_
    /\ "ACTION_BET_DOUBLE_POT" \notin state.possibleActions_
    /\ state.betpotSize_ >= EngineRaise.max

\* C7 as stated: at every no-limit decision node where raising is valid, the
\* bet-pot action (kBetPot, the raise to maximum spend plus pot) is enabled.
C7_BetPotAlwaysEnabled ==
    NoLimitRaiseNode => IdOf("ACTION_BET_POT") \in LegalActions(state)

\* C7 amended: at every no-limit decision node where raising is valid, the plain
\* bet action (kBet) is enabled, and its amount, the pot clamped into
\* [min_bet, all_in], is an amount the engine accepts; bet-pot (kBetPot) is enabled
\* only when maximum spend plus pot is below the all-in amount.
C7_PlainBetAlwaysEnabled ==
    NoLimitRaiseNode =>
        /\ IdOf("ACTION_BET") \in LegalActions(state)
        /\ EngineRaise.min <= state.potSize_ /\ state.potSize_ <= EngineRaise.max
        /\ IdOf("ACTION_BET_POT") \in LegalActions(state)
               => state.betpotSize_ < EngineRaise.max

\* raising is valid, the plain bet is offered and bet-pot is not
C7_Witness ==
    /\ NoLimitRaiseNode
    /\ IdOf("ACTION_BET") \in LegalActions(state)
    /\ IdOf("ACTION_BET_POT") \notin LegalActions(state)

\* the pot the engine state shows, clamped into [min_bet, all_in]
ClampedPot ==
    LET a == state.acpc_state_
        pot == a.maxSpent * (game.numPlayers - numFolded(game, a))
        atLeastMin == IF pot > EngineRaise.min THEN pot ELSE EngineRaise.min
    IN  IF EngineRaise.max < atLeastMin THEN EngineRaise.max ELSE atLeastMin

\* C8 as stated: at every no-limit decision node where raising is valid, all-in is
\* enabled if and only if the all-in amount is strictly greater than the bet-pot
\* amount (maximum spend plus pot) computed for that node.
C8_AllInIffAboveBetPot ==
    NoLimitRaiseNode =>
        ("ACTION_ALL_IN" \in state.possibleActions_
             <=> state.allInSize_ > state.betpotSize_)

\* C8 amended: at every no-limit decision node where raising is valid, all-in is
\* enabled if and only if the all-in amount is strictly greater than the amount of
\* the plain bet action, which is the pot clamped into [min_bet, all_in].
C8_AllInIffAbovePlainBet ==
    NoLimitRaiseNode =>
        /\ state.potSize_ = ClampedPot
        /\ state.allInSize_ = EngineRaise.max
        /\ "ACTION_ALL_IN" \in state.possibleActions_ <=> EngineRaise.max > ClampedPot

\* all-in is enabled although the bet-pot amount is not below the all-in amount
C8_Witness ==
    /\ NoLimitRaiseNode
    /\ "ACTION_ALL_IN" \in state.possibleActions_
    /\ state.allInSize_ > state.potSize_
    /\ state.allInSize_ <= state.betpotSize_

\* the information-state string of the player to act
ActingInfo == InformationStateString(game, state, CurrentPlayer(game, state))

\* the raise tables of the two scopes: the state's and the game's
RaiseTables == {state.off_abs_information_state_action_, game_off_abs}

\* C9: the off-abstraction raise is enabled only if the information-state string of
\* the player to act has a recorded custom raise amount, in the state-scope or the
\* game-scope table, with min_bet <= amount < all_in; when enabled, the amount
\* attached to the action is that recorded amount.
C9_OffAbsOnlyAfterRegistration ==
    "ACTION_OFF_ABS" \in state.possibleActions_ =>
        /\ IsDecisionNode(state) /\ EngineRaise.valid
        /\ \E table \in RaiseTables :
              /\ ActingInfo \in DOMAIN table
              /\ EngineRaise.min <= table[ActingInfo]
              /\ table[ActingInfo] < EngineRaise.max
              /\ state.offabsSize_ = table[ActingInfo]
              /\ RaiseSizeOf(state, "ACTION_OFF_ABS") = table[ActingInfo]

\* the off-abstraction raise is enabled with the amount of a registration that only
\* the state holds
C9_Witness ==
    /\ "ACTION_OFF_ABS" \in state.possibleActions_
    /\ ActingInfo \in DOMAIN state.off_abs_information_state_action_
    /\ state.offabsSize_ = state.off_abs_information_state_action_[ActingInfo]
    /\ ActingInfo \notin DOMAIN game_off_abs

AlreadyExists == "Error! Off abs action already exists for this infostate!"

\* C10: write-once raise table. A registration on a state for an information-state
\* string that the state already registered returns false and leaves the table as
\* it was, whatever the second amount; the search driver, whose input is such a
\* raise, ends in the fatal error and the table is as it was.
C10_WriteOnceRaiseTable ==
    [][ LET table == state.off_abs_information_state_action_
            table2 == state'.off_abs_information_state_action_
        IN  /\ (last'.op = "AddOffAbsInformationStateRaise" /\ last'.info \in DOMAIN table)
                  => (last'.ret = "false" /\ table2 = table)
            /\ (last'.op = "AddOffAbsInformationStateRaise" /\ last'.info \notin DOMAIN table)
                  => (last'.ret = "true" /\ table2[last'.info] = last'.raise)
            /\ (/\ last'.op = "GetOpponentAction"
                /\ last'.info \in DOMAIN table
                /\ EngineRaise.valid
                /\ last'.raise \notin {0, 1}
                /\ EngineRaise.min <= last'.raise /\ last'.raise <= EngineRaise.max)
                  => (fatal' = AlreadyExists /\ table2 = table)
      ]_vars

\* a second registration with another amount was refused: the first amount is stored
C10_Witness ==
    /\ last.op = "AddOffAbsInformationStateRaise"
    /\ last.ret = "false"
    /\ last.info \in DOMAIN state.off_abs_information_state_action_
    /\ state.off_abs_information_state_action_[last.info] # last.raise

\* the strings a raise is registered for, on the state or on the game
KnownInfos ==
    DOMAIN state.off_abs_information_state_action_ \cup DOMAIN game_off_abs

\* C11 as stated: once a string has a custom raise amount visible to the state,
\* from the game-scope table or from the state's own table, every later lookup on
\* the state returns the same amount and a later registration of the string on
\* the state is refused.
C11_NoSilentRedefinition ==
    [][ \A info \in KnownInfos :
          CheckInOffAbsInformationState(game_off_abs, state, info) =>
              /\ CheckInOffAbsInformationState(game_off_abs', state', info)
              /\ GetOffAbsInformationStateRaise(game_off_abs', state', info).value
                     = GetOffAbsInformationStateRaise(game_off_abs, state, info).value
              /\ (last'.op = "AddOffAbsInformationStateRaise" /\ last'.info = info)
                     => last'.ret = "false"
      ]_vars

\* C11 amended: once a string is in the state's own table, every later lookup on
\* the state returns that amount, whatever is registered on the game, and a later
\* registration on the state is refused; entries of the game-scope table are never
\* changed or removed; a string visible only through the game-scope table keeps its
\* amount until the state registers it, which is accepted once and then shadows
\* the game's amount.
C11_StateEntriesWriteOnce ==
    [][ LET table == state.off_abs_information_state_action_
            lookup(info) == GetOffAbsInformationStateRaise(game_off_abs, state, info).value
            lookup2(info) == GetOffAbsInformationStateRaise(game_off_abs', state', info).value
            stateAdd(info) == last'.op = "AddOffAbsInformationStateRaise" /\ last'.info = info
        IN  /\ \A info \in DOMAIN table :
                  /\ lookup2(info) = table[info]
                  /\ lookup(info) = table[info]
                  /\ stateAdd(info) => last'.ret = "false"
            /\ \A info \in DOMAIN game_off_abs :
                  /\ info \in DOMAIN game_off_abs'
                  /\ game_off_abs'[info] = game_off_abs[info]
                  /\ info \notin DOMAIN table =>
                        IF stateAdd(info) \/ (last'.op = "GetOpponentAction"
                                              /\ last'.info = info /\ last'.id = kOffAbs)
                        THEN last'.ret # "false" /\ lookup2(info) = last'.raise
                        ELSE lookup2(info) = lookup(info)
      ]_vars

\* a string registered on the game with one amount was registered on the state
\* with another: the state's lookup now gives the state's amount
C11_Witness ==
    /\ last.op = "AddOffAbsInformationStateRaise" /\ last.ret = "true"
    /\ last.info \in DOMAIN game_off_abs
    /\ game_off_abs[last.info] # last.raise
    /\ GetOffAbsInformationStateRaise(game_off_abs, state, last.info).value = last.raise

\* C12: zero-sum. In every terminal state, fold-out or showdown, the entries of
\* Returns() sum to zero over the players; in every other state Returns() is zero
\* for every player.
C12_ZeroSum ==
    /\ IsTerminal(state) => SumOver(Players(game), Returns(game, state)) = 0
    /\ ~IsTerminal(state) => \A p \in Players(game) : Returns(game, state)[p + 1] = 0

\* a showdown of players with different contributions, one of them a loser: the
\* side pots are paid
C12_Witness ==
    /\ IsTerminal(state)
    /\ numFolded(game, state.acpc_state_) = 0
    /\ \E p, q \in Players(game) :
          state.acpc_state_.spent[p + 1] # state.acpc_state_.spent[q + 1]
    /\ \E p \in Players(game) : Returns(game, state)[p + 1] < 0

\* the state is terminal because all players but one have folded
IsFoldOut(g, s) ==
    IsTerminal(s) /\ numFolded(g, s.acpc_state_) + 1 = g.numPlayers

\* C13: fold-out payoff. In every terminal state reached because all but one
\* player folded, Returns() gives the one player who has not folded the sum of the
\* other players' contributions and every other player the negative of that
\* player's own contribution, whatever cards were dealt.
C13_FoldOutPayoff ==
    IsFoldOut(game, state) =>
        \A p \in Players(game) :
            Returns(game, state)[p + 1] =
                IF state.acpc_state_.playerFolded[p + 1]
                THEN -(ChipParts(game) * state.acpc_state_.spent[p + 1])
                ELSE ChipParts(game) *
                        SumOver(Players(game) \ {p}, state.acpc_state_.spent)

\* a fold-out of three players where the two who folded contributed different
\* amounts and the third holds the lowest card
C13_Witness ==
    /\ IsFoldOut(game, state)
    /\ \E p, q \in Players(game) :
          /\ state.acpc_state_.playerFolded[p + 1] /\ state.acpc_state_.playerFolded[q + 1]
          /\ state.acpc_state_.spent[p + 1] > state.acpc_state_.spent[q + 1]
          /\ state.acpc_state_.spent[q + 1] > 0
    /\ \E w \in Players(game) :
          /\ ~state.acpc_state_.playerFolded[w + 1]
          /\ \A p \in Players(game) \ {w} :
                Max(state.hole_cards_[p + 1]) > Max(state.hole_cards_[w + 1])

\* C14: Terminal is absorbing. At a terminal state the legal-action set is empty and
\* every attempted action, a card or a betting action, is rejected with a fatal
\* error and leaves the state as it is, so the state stays terminal.
C14_TerminalIsAbsorbing ==
    [][IsTerminal(state) =>
          /\ LegalActions(state) = {}
          /\ state' = state
          /\ IsTerminal(state')
          /\ last'.op = "ApplyAction" => fatal' # ""]_vars

\* a call was attempted at a showdown and was rejected
C14_Witness ==
    /\ IsTerminal(state)
    /\ numFolded(game, state.acpc_state_) = 0
    /\ last.op = "ApplyAction" /\ last.id = IdOf("ACTION_CHECK_CALL")
    /\ fatal = "SPIEL_CHECK_GE(cur_player_, 0)"

\* C15: applying a chance action with card c at a chance node removes c from the
\* deck and adds c to exactly one card set, the hole cards of the lowest-numbered
\* player who holds fewer hole cards than required or, when every player is
\* complete, the board; the other players' hole cards and the betting state of the
\* engine are unchanged. A card taken from the deck is in no other card set.
C15_ChanceActionDealsOneCard ==
    [][(IsChanceNode(state) /\ last'.op = "ApplyAction" /\ fatal' = "") =>
          LET c == last'.id % 256
              short == ShortOfHoleCards(game, state)
          IN  /\ state'.deck_ = state.deck_ \ {c}
              /\ state'.acpc_state_ = state.acpc_state_
              /\ IF short # {}
                 THEN /\ state'.hole_cards_[Min(short) + 1] =
                             state.hole_cards_[Min(short) + 1] \cup {c}
                      /\ \A p \in Players(game) \ {Min(short)} :
                             state'.hole_cards_[p + 1] = state.hole_cards_[p + 1]
                      /\ state'.board_cards_ = state.board_cards_
                 ELSE /\ state'.board_cards_ = state.board_cards_ \cup {c}
                      /\ state'.hole_cards_ = state.hole_cards_
              /\ c \in state.deck_ =>
                    Cardinality({p \in Players(game) : c \in state'.hole_cards_[p + 1]})
                        + (IF c \in state'.board_cards_ THEN 1 ELSE 0) = 1]_vars

\* the last action dealt a card of the deck to the board, after the betting of
\* the first round
C15_Witness ==
    /\ last.op = "ApplyAction" /\ last.legal /\ fatal = ""
    /\ state.actionSequence_ # <<>>
    /\ state.actionSequence_[Len(state.actionSequence_)] = ActionChar("ACTION_DEAL")
    /\ last.id \in state.board_cards_
    /\ state.acpc_state_.round = 1

\* C16: in a limit game, at every decision node, the plain bet is the only raise
\* action that can be enabled: all-in, bet-half-pot, bet-pot, bet-double-pot and the
\* off-abstraction raise are never enabled, and no pot-relative amount is computed
\* (the amounts stay at zero).
C16_LimitGameOnlyPlainBet ==
    (IsLimitGame(game) /\ IsDecisionNode(state)) =>
        /\ state.possibleActions_ \subseteq
               {"ACTION_FOLD", "ACTION_CHECK_CALL", "ACTION_BET"}
        /\ LegalActions(state) \subseteq
               {IdOf("ACTION_FOLD"), IdOf("ACTION_CHECK_CALL"), IdOf("ACTION_BET")}
        /\ state.potSize_ = 0 /\ state.halfpotSize_ = 0 /\ state.betpotSize_ = 0
        /\ state.doublepotSize_ = 0 /\ state.offabsSize_ = 0

\* a decision node of a limit game where the plain bet is enabled, in the second
\* round after a raise in the first
C16_Witness ==
    /\ IsLimitGame(game) /\ IsDecisionNode(state)
    /\ "ACTION_BET" \in state.possibleActions_
    /\ state.acpc_state_.round = 1
    /\ state.acpc_state_.maxSpent > 1

\* C17: with the fold/call-only abstraction, at every decision node the enabled
\* actions are a subset of {fold, check/call}: no raise of any kind is enabled,
\* whatever the engine reports about raising.
C17_FoldCallOnly ==
    (game.bettingAbstraction = "fc" /\ IsDecisionNode(state)) =>
        /\ state.possibleActions_ \subseteq {"ACTION_FOLD", "ACTION_CHECK_CALL"}
        /\ LegalActions(state) \subseteq {IdOf("ACTION_FOLD"), IdOf("ACTION_CHECK_CALL")}

\* a fold/call-only decision node where the engine reports that raising is valid
C17_Witness ==
    /\ game.bettingAbstraction = "fc" /\ IsDecisionNode(state)
    /\ EngineRaise.valid
    /\ state.actionSequence_[Len(state.actionSequence_)] = ActionChar("ACTION_CHECK_CALL")

\* the live pot: maximum spend times the number of players who have not folded
LivePot ==
    state.acpc_state_.maxSpent * (game.numPlayers - numFolded(game, state.acpc_state_))

\* C18: at a no-limit decision node with raising valid, every pot-relative amount is
\* the maximum spend plus a fraction of the live pot: half-pot is MaxSpend +
\* floor(pot / 2), bet-pot is MaxSpend + pot, double-pot is MaxSpend + 2 * pot,
\* where pot = MaxSpend * (number of players - number folded).
C18_PotRelativeAmounts ==
    NoLimitRaiseNode =>
        LET MaxSpend == state.acpc_state_.maxSpent
            floorHalf == CHOOSE h \in 0..LivePot : 2 * h <= LivePot /\ LivePot < 2 * (h + 1)
        IN  /\ state.halfpotSize_ = MaxSpend + floorHalf
            /\ state.betpotSize_ = MaxSpend + LivePot
            /\ state.doublepotSize_ = MaxSpend + 2 * LivePot

\* a node of three players with an odd pot: the half is rounded down
C18_Witness ==
    /\ NoLimitRaiseNode
    /\ game.numPlayers = 3
    /\ LivePot % 2 = 1
    /\ 2 * (state.halfpotSize_ - state.acpc_state_.maxSpent) = LivePot - 1

\* the abstract action types of a decision node
ChoiceActionTypes == {ActionOfId[i] : i \in 1..Len(ActionOfId)}

\* C19: applying a decision action appends exactly one character to the
\* action-sequence log, fixed per action type and different for different types
\* (fold, call, bet, all-in, half-pot, off-abstraction, bet-pot, double-pot); the
\* monetary effect is the engine's, called with the amount computed for that action;
\* and the node type, the enabled actions and the amounts are those computed for the
\* new state when the operation returns.
C19_DecisionActionEffect ==
    [][(IsDecisionNode(state) /\ last'.op = "ApplyAction" /\ fatal' = "") =>
          LET t == ActionOfId[last'.id + 1]
              type == CASE t = "ACTION_FOLD" -> "f"
                        [] t = "ACTION_CHECK_CALL" -> "c"
                        [] OTHER -> "r"
              size == CASE t = "ACTION_BET" -> state.potSize_
                        [] t = "ACTION_ALL_IN" -> state.allInSize_
                        [] t = "ACTION_BET_HALF_POT" -> state.halfpotSize_
                        [] t = "ACTION_OFF_ABS" -> state.offabsSize_
                        [] t = "ACTION_BET_POT" -> state.betpotSize_
                        [] t = "ACTION_BET_DOUBLE_POT" -> state.doublepotSize_
                        [] OTHER -> 0
          IN  /\ state'.actionSequence_ = Append(state.actionSequence_, ActionChar(t))
              /\ \A u \in ChoiceActionTypes \ {t} : ActionChar(u) # ActionChar(t)
              /\ ActionChar(t) # ActionChar("ACTION_DEAL")
              /\ state'.acpc_state_ = doAction(game, state.acpc_state_, type, size)
              /\ state'.hole_cards_ = state.hole_cards_
              /\ state'.board_cards_ = state.board_cards_
              /\ state'.deck_ = state.deck_
              /\ state' = _CalculateActionsAndNodeType(game, game_off_abs', state')]_vars

\* the off-abstraction raise was applied after a call, with the amount registered
\* for the node
C19_Witness ==
    /\ last.op = "ApplyAction" /\ last.id = kOffAbs /\ fatal = ""
    /\ Len(state.actionSequence_) >= 2
    /\ state.actionSequence_[Len(state.actionSequence_)] = "b"
    /\ state.actionSequence_[Len(state.actionSequence_) - 1] = "c"
    /\ state.acpc_state_.maxSpent = 3

\* the cards of the queried player and of the board are complete for the round
CardsComplete(player) ==
    /\ NumCards(state.hole_cards_[player + 1]) = game.numHoleCards
    /\ \/ state.board_cards_ = {}
       \/ NumCards(state.board_cards_) =
              GetNbBoardCardsRequired(game, state.acpc_state_.round)

\* C20: InformationStateString(player) computes a hand index only when the hole
\* cards of the player are fully dealt and the board is empty or holds exactly the
\* cards required for the round; in every other state, chance nodes in the middle
\* of dealing the board included, the index is the sentinel 0 and the indexer is
\* not called.
C20_IndexOnlyOnCompleteCards ==
    last.op = "InformationStateString" =>
        /\ last.ret = "index" => CardsComplete(last.id)
        /\ ~CardsComplete(last.id) => (last.ret = "sentinel" /\ last.raise = 0)

\* the information state was queried at the chance node before the turn card: the
\* board holds the three flop cards, four are required, and the indexer of three
\* rounds was called with five cards
C20_Witness ==
    /\ last.op = "InformationStateString" /\ last.ret = "index"
    /\ IsChanceNode(state)
    /\ state.acpc_state_.round = 2
    /\ NumCards(state.board_cards_) = 3
    /\ ~IndexerInputComplete(3, CardSetToString(state.hole_cards_[last.id + 1])
                                   \o CardSetToString(state.board_cards_))
    /\ last.raise \in UninitIndexes \ {0}

\* the round whose cumulative card count is the number of cards of the string
RoundOfString(str) == CHOOSE r \in 1..IndexerRounds : 2 * cards_num(r) = Len(str)

\* C21: for an indexer configured with R rounds and a string that holds exactly
\* the cards of a round r <= R, index() returns the canonical index of round r:
\* what an indexer configured with exactly r rounds returns for the same string.
C21_IndexOfReachedRound ==
    (/\ ix.kind = "api" /\ ix.step = "done" /\ ix.op = "generalIndexer::index"
     /\ RoundOfString(ix.hand) <= ix.indexer)
        => (ix.err = "" /\ ix.ret = index(RoundOfString(ix.hand), ix.hand))

\* a two-card string was indexed by the indexer of two rounds, which read three
\* more cards from its array and returned the index of that five-card hand
C21_Witness ==
    /\ ix.kind = "api" /\ ix.step = "done" /\ ix.op = "generalIndexer::index"
    /\ ix.indexer = 2 /\ Len(ix.hand) = 4 /\ Len(ix.junk) = 3
    /\ ix.ret = hand_index_last(2, DecodeCards(ix.hand) \o ix.junk)
    /\ ix.ret # index(1, ix.hand)

ApiDone(op) == ix.kind = "api" /\ ix.step = "done" /\ ix.op = op

\* C22: the single-round indexer and the general indexer configured with one round
\* agree: preflopIndexer::index accepts every well-formed string of two distinct
\* cards and returns the value, below Size(1), that generalIndexer(1)::index returns,
\* and for every index below Size(1) the two canonicalHand functions return the same
\* string.
C22_PreflopAgreesWithGeneral ==
    /\ (ApiDone("preflopIndexer::index") /\ ix.hand \in {HandString(h) : h \in Hands[1]}) =>
          /\ ix.err = ""
          /\ ix.ret = generalIndexer_index(1, ix.hand, <<>>).ret
          /\ ix.ret \in 0..(getSize(1) - 1)
    /\ (ApiDone("preflopIndexer::canonicalHand") /\ ix.id < getSize(1)) =>
          /\ ix.err = ""
          /\ ix.canon = generalIndexer_canonicalHand(1, ix.id).ret

\* preflopIndexer::index was called with a string of two distinct cards, which the
\* general indexer of one round indexes, and aborted
C22_Witness ==
    /\ ApiDone("preflopIndexer::index")
    /\ ix.hand \in {HandString(h) : h \in Hands[1]}
    /\ generalIndexer_index(1, ix.hand, <<>>).err = ""
    /\ ix.err = "assert(cardString.size() <= 2)"

\* C24: index() aborts whenever the card string is longer than the capacity of the
\* indexer's configured round: longer than 2 * getCardsNum(R) characters on a
\* general indexer configured with R rounds, longer than 4 characters on the
\* single-round indexer.
C24_IndexAbortsBeyondCapacity ==
    /\ (ApiDone("generalIndexer::index") /\ Len(ix.hand) > 2 * getCardsNum(ix.indexer))
          => ix.err # ""
    /\ (ApiDone("preflopIndexer::index") /\ Len(ix.hand) > 4) => ix.err # ""

\* the general indexer of one round was given the five cards of round 2 and
\* returned the index of the first two
C24_Witness ==
    /\ ApiDone("generalIndexer::index")
    /\ ix.indexer = 1 /\ Len(ix.hand) = 2 * getCardsNum(2)
    /\ ix.err = ""
    /\ ix.ret = index(1, SubSeq(ix.hand, 1, 4))

\* C25: canonicalHand(i) fails its precondition for every i >= Size(R) of the
\* indexer's configured round R; for every i < Size(R) it returns a string of
\* exactly getCardsNum(R) cards, all distinct, and always the same string for the
\* same index (the representative of class i of round R).
C25_CanonicalHandPrecondition ==
    ApiDone("generalIndexer::canonicalHand") =>
        IF ix.id >= getSize(ix.indexer)
        THEN ix.err # "" /\ ix.canon = <<>>
        ELSE /\ ix.err = ""
             /\ Len(ix.canon) = 2 * getCardsNum(ix.indexer)
             /\ Cardinality(Range(DecodeCards(ix.canon))) = getCardsNum(ix.indexer)
             /\ Range(DecodeCards(ix.canon)) \subseteq Deck52
             /\ index(ix.indexer, ix.canon) = ix.id

\* canonicalHand of the two-round indexer returned five cards for the last index
\* below Size(2)
C25_Witness ==
    /\ ApiDone("generalIndexer::canonicalHand")
    /\ ix.indexer = 2 /\ ix.id = getSize(2) - 1
    /\ ix.err = "" /\ Len(ix.canon) = 10

\* canonicalHand of the two-round indexer was refused the index Size(2)
C25_WitnessRefused ==
    /\ ApiDone("generalIndexer::canonicalHand")
    /\ ix.indexer = 2 /\ ix.id = getSize(2)
    /\ ix.err # ""

C26_WitnessGetSize ==
    /\ ApiDone("generalIndexer::getSize")
    /\ ix.round = ix.indexer + 1
    /\ ix.err # ""

\* C27: a missing cluster file is never fatal: the construction of a game with a
\* supported betting abstraction succeeds without the files, and every cluster
\* lookup (round, index) then returns the placeholder bucket, index mod 200.
C27_PlaceholderCluster ==
    /\ (ApiDone("UniversalPokerGame::UniversalPokerGame") /\ ~ix.files
        /\ ix.abstraction \in {"fc", "fcpa"}) => ix.err = ""
    /\ (ApiDone("UniversalPokerGame::GetCluster") /\ ~ix.files) =>
          /\ ix.err = ""
          /\ ix.ret = ((ix.card_id.hi % 200) * (65536 % 200) + ix.card_id.lo) % 200

\* without the cluster files, GetCluster was given the river index 2^31 and
\* returned a negative bucket
C27_Witness ==
    /\ ApiDone("UniversalPokerGame::GetCluster") /\ ~ix.files
    /\ ix.round = 4 /\ ix.card_id = [hi |-> 32768, lo |-> 0]
    /\ ix.ret = 0 - 48

\* the part of the claim that holds: the construction does not depend on the
\* files, and the lookup of an index below 2^31 is the index mod 200
C27_PlaceholderBelowIntMax ==
    /\ (ApiDone("UniversalPokerGame::UniversalPokerGame")
        /\ ix.abstraction \in {"fc", "fcpa"}) => ix.err = ""
    /\ (ApiDone("UniversalPokerGame::GetCluster") /\ ix.card_id.hi < 32768) =>
          ix.ret = GetClusterUnsigned(ix.round, ix.card_id)

(***************************************************************************)
(* Properties of cloned states                                             *)
(***************************************************************************)
\* the state-scope table of custom raises of the state a handle points to
TableOf(x, h) == x.heap[x.handles[h]].state_.off_abs_information_state_action_

\* C28: the state-scope off-abstraction table of a newly created initial state is
\* empty, and every operation on a state (a registration, a chance action, a
\* decision action, cloning into a child) gives a state whose table has every
\* entry the state had, with the same amount: the table only grows.
C28_StateTableOnlyGrows ==
    /\ \A h \in Handles : ix.handles[h] # 0 => TableOf(ix, h) = <<>>
    /\ [][ ix'.last.op # "none" =>
             \A info \in DOMAIN TableOf(ix, ix'.last.source) :
                 /\ info \in DOMAIN TableOf(ix', ix'.last.target)
                 /\ TableOf(ix', ix'.last.target)[info] = TableOf(ix, ix'.last.source)[info]
         ]_vars

\* a child made by ChildStep into a second handle holds the raise its parent
\* registered
C28_Witness ==
    /\ ix.kind = "heap" /\ ix.last.op = "ChildStep"
    /\ ix.last.source = 1 /\ ix.last.target = 2
    /\ TableOf(ix, 1) # <<>>
    /\ TableOf(ix, 2) = TableOf(ix, 1)

\* C29: clone independence. After c = s.Clone() or c = s.ChildStep(a), every chance
\* action, decision action and raise registration applied to c, and every further
\* clone, leaves s as it was: the deck, the hole cards, the board, the action log,
\* the legal-action mask, the bet sizes and the private raise table of every state
\* other than the one operated on are unchanged.
C29_CloneIndependence ==
    [][ \A h \in Handles :
          (ix.handles[h] # 0 /\ h # ix'.last.target) =>
              /\ ix'.handles[h] # 0
              /\ ix'.heap[ix'.handles[h]].state_ = Held(h).state_
      ]_vars

\* a clone was registered a raise and stepped past a betting action while the
\* state it was cloned from is still at its first decision node with an empty table
C29_Witness ==
    /\ ix.kind = "heap" /\ ix.last.op = "ChildStep"
    /\ ix.last.source = 2 /\ ix.last.target = 2
    /\ ix.handles[1] # 0
    /\ TableOf(ix, 2) # <<>> /\ TableOf(ix, 1) = <<>>
    /\ Held(2).state_.acpc_state_.action[1] # <<>>
    /\ Held(1).state_.acpc_state_.action[1] = <<>>
    /\ Held(1).state_.deck_ = Held(2).state_.deck_

\* C30: states derived from the same game share only immutable data: whatever the
\* other states did in between, a state advanced at a chance node by the search
\* driver gets the action it would get if it had been advanced alone, that is, the
\* one sampled with the value the generator gives after the draws of the state's
\* own history.
C30_AdvancedAsIfAlone ==
    [][ ix'.last.op = "GetChanceAction" =>
          ix'.last.action =
              SampleAction(ix'.last.outcomes, ix.rng.seq[ix'.last.draws + 1])
      ]_vars

\* a state drew its first value after another state had drawn from the same
\* generator, and was dealt another card than the one it is dealt alone
C30_Witness ==
    /\ ix.kind = "heap" /\ ix.last.op = "GetChanceAction"
    /\ ix.last.draws = 0 /\ ix.last.pos = 1
    /\ ix.last.action # SampleAction(ix.last.outcomes, ix.rng.seq[1])

(***************************************************************************)
(* Properties of the search driver and of the reachable game states        *)
(***************************************************************************)
\* C31: register-then-apply. At an opponent's decision node, for every raise amount
\* GetOpponentAction accepts and registers, the off-abstraction action it returns
\* is applied without a fatal error and makes the engine raise to exactly the
\* registered amount: the actor's contribution is then that amount.
C31_RegisterThenApply ==
    [][ (last'.op = "GetOpponentAction" /\ last'.id = kOffAbs) =>
           /\ fatal' = ""
           /\ state'.acpc_state_.maxSpent = last'.raise
           /\ state'.acpc_state_.spent[CurrentPlayer(game, state) + 1] = last'.raise
      ]_vars

\* the driver registered a raise inside the engine's interval, got the
\* off-abstraction action back and the action was refused by ApplyChoiceAction
C31_Witness ==
    /\ last.op = "GetOpponentAction" /\ last.id = kOffAbs
    /\ EngineRaise.valid
    /\ EngineRaise.min <= last.raise /\ last.raise < EngineRaise.max
    /\ last.info \in DOMAIN state.off_abs_information_state_action_
    /\ state.off_abs_information_state_action_[last.info] = last.raise
    /\ "ACTION_OFF_ABS" \notin state.possibleActions_
    /\ fatal = "assert((possibleActions_ & action_type) > 0)"

\* the engine action of an abstract action at the current node: its type and size
EngineActionOf(id) ==
    LET t == ActionOfId[id + 1]
        type == IF t = "ACTION_FOLD" THEN "f" ELSE IF t = "ACTION_CHECK_CALL" THEN "c" ELSE "r"
    IN  [type |-> type, size |-> IF type = "r" THEN RaiseSizeOf(state, t) ELSE 0]

\* C32: every action offered is accepted by the protocol engine. At every reachable
\* decision node, the engine action of each member of LegalActions() (fold, call,
\* or a raise to the amount computed for it) is valid for the engine, and in a
\* no-limit game every enabled raise amount lies in the engine's [min_bet, all_in].
C32_OfferedActionsAreValid ==
    IsDecisionNode(state) =>
        \A id \in LegalActions(state) :
            /\ isValidAction(game, state.acpc_state_,
                             EngineActionOf(id).type, EngineActionOf(id).size)
            /\ (EngineActionOf(id).type = "r" /\ game.betting = "nolimit") =>
                  /\ EngineRaise.valid
                  /\ EngineActionOf(id).size \in EngineRaise.min..EngineRaise.max

\* a no-limit node that offers fold, call and at least three raises, after a raise
C32_Witness ==
    /\ IsDecisionNode(state) /\ game.betting = "nolimit" /\ fatal = ""
    /\ numRaises(state.acpc_state_) > 0
    /\ {"ACTION_FOLD", "ACTION_CHECK_CALL", "ACTION_BET", "ACTION_ALL_IN"}
           \subseteq state.possibleActions_
    /\ Cardinality(LegalActions(state)) >= 5

\* the card sets of a state: the deck, the hole cards of every player, the board
CardSetsOf(s) == <<s.deck_, s.hole_cards_, s.board_cards_>>

\* the deck, the hole cards and the board share no card and make up the full deck
CardsConserved(g, s) ==
    /\ \A p \in 1..g.numPlayers :
          /\ s.hole_cards_[p] \cap s.deck_ = {}
          /\ s.hole_cards_[p] \cap s.board_cards_ = {}
          /\ \A q \in 1..g.numPlayers : q # p => s.hole_cards_[p] \cap s.hole_cards_[q] = {}
          /\ NumCards(s.hole_cards_[p]) <= g.numHoleCards
    /\ s.deck_ \cap s.board_cards_ = {}
    /\ s.deck_ \cup s.board_cards_ \cup UNION {s.hole_cards_[p] : p \in 1..g.numPlayers}
          = CardSet(g.numSuits, g.numRanks)
    /\ NumCards(s.deck_) + NumCards(s.board_cards_)
          + SumOver(Players(g), [p \in 1..g.numPlayers |-> NumCards(s.hole_cards_[p])])
          = g.numSuits * g.numRanks

EnabledRaises ==
    {t \in {"ACTION_BET", "ACTION_ALL_IN", "ACTION_BET_HALF_POT", "ACTION_OFF_ABS",
            "ACTION_BET_POT", "ACTION_BET_DOUBLE_POT"} : IdOf(t) \in LegalActions(state)}

\* C34: at every reachable no-limit decision node the raise actions enabled at
\* the same time carry pairwise different amounts: no two of bet, all-in,
\* bet-half-pot, bet-pot, bet-double-pot and off-abstraction that are both
\* enabled raise to the same amount.
C34_RaiseAmountsPairwiseDifferent ==
    (IsDecisionNode(state) /\ game.betting = "nolimit") =>
        \A t, u \in EnabledRaises :
            t # u => RaiseSizeOf(state, t) # RaiseSizeOf(state, u)

\* heads-up, nobody folded: the pot is twice the largest contribution, and the
\* plain bet and the half-pot bet are both offered with that amount
C34_Witness ==
    /\ IsDecisionNode(state) /\ game.betting = "nolimit" /\ fatal = ""
    /\ {"ACTION_BET", "ACTION_BET_HALF_POT"} \subseteq EnabledRaises
    /\ state.potSize_ = 2 * state.acpc_state_.maxSpent
    /\ state.halfpotSize_ = state.potSize_
    /\ state.potSize_ >= EngineRaise.min

\* C35: no dead ends. Every reachable non-terminal state has a non-empty
\* legal-action set: at a chance node the deck is non-empty and a player or the
\* board is short of a card, and the card dealt there goes to a player's hole
\* cards or to the board; at a decision node fold or check/call is enabled.
C35_NoDeadEnds ==
    /\ [](~IsTerminal(state) =>
            /\ LegalActions(state) # {}
            /\ IsChanceNode(state) =>
                  /\ state.deck_ # {}
                  /\ ShortOfHoleCards(game, state) # {} \/ BoardCardsMissing(game, state)
            /\ IsDecisionNode(state) =>
                  {IdOf("ACTION_FOLD"), IdOf("ACTION_CHECK_CALL")} \cap LegalActions(state) # {})
    /\ [][ (IsChanceNode(state) /\ last'.op = "ApplyAction") =>
              \/ state'.board_cards_ = state.board_cards_ \cup {last'.id}
                    /\ last'.id \notin state.board_cards_
                    /\ state'.hole_cards_ = state.hole_cards_
              \/ \E p \in 1..game.numPlayers :
                    /\ state'.hole_cards_
                          = [state.hole_cards_ EXCEPT ![p] = @ \cup {last'.id}]
                    /\ last'.id \notin state.hole_cards_[p]
                    /\ state'.board_cards_ = state.board_cards_
         ]_vars

\* betting ended with both players all-in before the last round: a chance node
\* of a finished hand, with the board card of the last round still in the deck
C35_Witness ==
    /\ IsChanceNode(state) /\ fatal = ""
    /\ state.acpc_state_.finished
    /\ BoardCardsMissing(game, state)
    /\ state.deck_ # {}
    /\ \A p \in 1..game.numPlayers : state.acpc_state_.spent[p] = game.stack[p]

\* C36: a state is Terminal only if the protocol engine reports the hand
\* finished, and at every terminal state with at least two players not folded
\* (showdown) every player holds the required number of hole cards and the board
\* holds exactly the cards required for the final round, also when betting
\* ended early because the players are all-in.
C36_TerminalMeansFinishedAndDealt ==
    IsTerminal(state) =>
        /\ state.acpc_state_.finished
        /\ numFolded(game, state.acpc_state_) <= game.numPlayers - 2 =>
              /\ \A p \in 1..game.numPlayers :
                    NumCards(state.hole_cards_[p]) = game.numHoleCards
              /\ state.acpc_state_.round = game.numRounds - 1
              /\ NumCards(state.board_cards_)
                    = GetNbBoardCardsRequired(game, game.numRounds - 1)

\* a showdown of a two-round hand whose betting ended all-in on the first round:
\* no action was made on the last round and the board card was dealt afterwards
C36_Witness ==
    /\ IsTerminal(state) /\ fatal = ""
    /\ game.numRounds = 2
    /\ numFolded(game, state.acpc_state_) = 0
    /\ state.acpc_state_.action[2] = <<>>
    /\ NumCards(state.board_cards_) = 1
    /\ last.op = "ApplyAction"
    /\ state.actionSequence_[Len(state.actionSequence_)] = "d"

\* the states that differ from s only in the hole cards of one player q other
\* than p: q holds other cards of those p cannot see, the rest are in the deck
TwinStates(g, s, p) ==
    UNION {{[s EXCEPT !.hole_cards_[q + 1] = alt,
                      !.deck_ = (s.deck_ \cup s.hole_cards_[q + 1]) \ alt] :
               alt \in {held \in SUBSET (s.deck_ \cup s.hole_cards_[q + 1]) :
                           Cardinality(held) = Cardinality(s.hole_cards_[q + 1])}} :
           q \in Players(g) \ {p}}

\* C37: information hiding. For any two reachable states with the same betting
\* history, the same board and the same hole cards of player p, which differ only
\* in the other players' hole cards, InformationStateString(p) is identical (and
\* with it the off-abstraction raise keyed by that string).
C37_InformationHiding ==
    last.op = "InformationStateString" =>
        \A t \in TwinStates(game, state, last.id) :
            \A i \in CardsIndexes(t, last.id) :
                InformationStateStringOfIndex(game, t, last.id, i) = last.info

\* the string was asked for at the chance node before the turn card, where the
\* indexer reads cards that were never written, and the other player's two hole
\* cards could have been two cards of the deck
C37_Witness ==
    /\ last.op = "InformationStateString" /\ last.ret = "index"
    /\ IsChanceNode(state) /\ NumCards(state.board_cards_) = 3
    /\ Cardinality(TwinStates(game, state, last.id)) > 1
    /\ Cardinality(CardsIndexes(state, last.id)) > 1
    /\ last.info.InfoAbs = 1

\* the same comparison at the nodes where the indexer is given all its cards
InformationHidingOnCompleteCards ==
    (last.op = "InformationStateString"
       /\ (CardsIndexComputed(state, last.id) =>
             IndexerInputComplete(state.acpc_state_.round + 1,
                 CardSetToString(state.hole_cards_[last.id + 1])
                     \o CardSetToString(state.board_cards_)))) =>
        \A t \in TwinStates(game, state, last.id) :
            \A i \in CardsIndexes(t, last.id) :
                InformationStateStringOfIndex(game, t, last.id, i) = last.info

\* C38: for every round r in 1..4 and every canonical index i in [0, Size(r)),
\* Size(4) = 2428287420 being above 2^31, the placeholder lookup GetCluster(r, i)
\* returns a bucket id in [0, 200) that equals i mod 200, the 64-bit index
\* having gone through the conversion to a 32-bit signed int.
C38_BucketInRange ==
    (ApiDone("UniversalPokerGame::GetCluster") /\ ix.round \in 1..4
        /\ Below(ix.card_id, size_per_round_gt[ix.round])) =>
        /\ ix.ret \in 0..199
        /\ ix.ret = GetClusterUnsigned(ix.round, ix.card_id)

\* the last river index, Size(4) - 1 = 2428287419: the int is -1866679877 and
\* the bucket returned is -77 (the index mod 200 is 19)
C38_Witness ==
    /\ ApiDone("UniversalPokerGame::GetCluster")
    /\ ix.round = 4 /\ ix.card_id = [hi |-> 37052, lo |-> 47547]
    /\ GetClusterUnsigned(ix.round, ix.card_id) = 19
    /\ ix.ret = 0 - 77

\* C39: every state returned by NewInitialState, Child or ChildPass is either
\* Terminal or a decision node at which the AI player is to act; it is never a
\* chance node nor a decision node of another player.
C39_ReturnedStateIsTerminalOrAIsTurn ==
    (ix.pc = "returned") =>
        \/ IsTerminal(state)
        \/ IsDecisionNode(state) /\ CurrentPlayer(game, state) = AI

\* Child returned the AI's node of the last round: since the call, the opponent
\* answered and the board card was drawn
C39_Witness ==
    /\ ix.pc = "returned" /\ ix.op = "Child" /\ fatal = ""
    /\ IsDecisionNode(state) /\ CurrentPlayer(game, state) = AI
    /\ state.acpc_state_.round = 1 /\ NumCards(state.board_cards_) = 1
    /\ state.acpc_state_.action[2] = <<>>
    /\ Len(state.acpc_state_.action[1]) >= 2

\* C40: every hand ends. From the initial chance node, every sequence of legal
\* actions reaches a Terminal state after finitely many steps, in limit and
\* no-limit games and for every betting abstraction; and the loop of ChildPass,
\* once entered, always exits: it returns a state, or the call ends in a fatal error.
C40_EveryHandEnds ==
    /\ (ix.mode = "play") => <>(IsTerminal(state) /\ fatal = "")
    /\ (ix.pc = "loop") ~> (ix.pc = "returned" \/ fatal # "")

\* a played hand of the two-round no-limit game ended at a showdown after both
\* rounds saw a raise
C40_Witness ==
    /\ ix.mode = "play" /\ IsTerminal(state) /\ fatal = ""
    /\ game.betting = "nolimit" /\ game.numRounds = 2
    /\ numFolded(game, state.acpc_state_) = 0
    /\ \A r \in 1..2 : \E i \in 1..Len(state.acpc_state_.action[r]) :
                          state.acpc_state_.action[r][i].type = "r"

\* the loop of ChildPass, entered from Child, has returned a finished hand: the
\* opponent answered and the board card was drawn inside the loop
LoopReturnedFinishedHand ==
    /\ ix.mode = "search" /\ ix.pc = "returned" /\ ix.op = "Child"
    /\ IsTerminal(state) /\ fatal = ""
    /\ NumCards(state.board_cards_) = 1

====
